---- MODULE Spec2Model ----
(***************************************************************************)
(* DDP client (ddp-rs): header codec, sequence counter and the fragmenter  *)
(* of DDPConnection (src/src/connection.rs, src/src/protocol/*.rs).        *)
(*                                                                         *)
(* Bytes are naturals 0..255, byte strings are sequences of bytes.  The    *)
(* UDP socket is the variable wire: the datagrams the last call handed to  *)
(* send_to and that send_to accepted, in order.                            *)
(*                                                                         *)
(* The decoders (protocol/*.rs, Packet::from_bytes in src/src/packet.rs)   *)
(* are applied one call at a time under SpecCodec; codec holds the call.   *)
(***************************************************************************)
EXTENDS Integers, Sequences, FiniteSets, TLC

\* ------------------------------------------------------------------------
\* Bounds of the model
\* ------------------------------------------------------------------------

\* payloads reach MaxChunks full chunks plus one byte
MaxChunks == 2

\* SpecCtl lets this many datagrams reach the Controller's socket
MaxArrive == 2

\* SpecCtl lets connect be called this many times for one IP address
MaxConnect == 2

\* Spec starts no new call once this many datagrams have been transmitted
MaxSent == 2

\* SpecSeq starts no new call once this many datagrams have been transmitted
MaxSeqSent == 17

\* the transport may fail at the 1st .. MaxFail-th send of a call
MaxFail == 2

\* inbound datagrams cut short are the first 0 .. MaxShort bytes of a datagram
MaxShort == 14

\* ------------------------------------------------------------------------
\* Program constants
\* ------------------------------------------------------------------------

\* connection.rs:14  const MAX_DATA_LENGTH: usize = 480 * 3;
MAX_DATA_LENGTH == 480 * 3

\* connection.rs:83  buffer: [u8; 1500]
BUFFER_SIZE == 1500

\* packet_type.rs:55-59
TIMECODE == 16
STORAGE == 8
REPLY == 4
QUERY == 2
PUSH == 1

U8 == 256
U16 == 65536

Min(a, b) == IF a < b THEN a ELSE b

\* Result<T, DDPError>
OkRet(n) == [ok |-> TRUE, val |-> n, err |-> "none"]
ErrRet(e) == [ok |-> FALSE, val |-> 0, err |-> e]

\* ------------------------------------------------------------------------
\* protocol::PacketType
\* ------------------------------------------------------------------------

\* impl Default for PacketType
PacketTypeDefault ==
    [version |-> 1, timecode |-> FALSE, storage |-> FALSE,
     reply |-> FALSE, query |-> FALSE, push |-> FALSE]

\* PacketType::push(&mut self, push)
push(pt, p) == [pt EXCEPT !.push = p]

\* impl Into<u8> for PacketType; the flag bits are distinct, so |= is +
PacketTypeInto(pt) ==
    LET v == IF pt.version \in {1, 2, 3, 4} THEN pt.version ELSE 0
    IN  ((v * 64) % U8)
          + (IF pt.timecode THEN TIMECODE ELSE 0)
          + (IF pt.storage THEN STORAGE ELSE 0)
          + (IF pt.reply THEN REPLY ELSE 0)
          + (IF pt.query THEN QUERY ELSE 0)
          + (IF pt.push THEN PUSH ELSE 0)

\* byte & mask != 0 for a one-bit mask
BitSet(byte, mask) == (byte \div mask) % 2 = 1

\* PacketTypeFrom reading the timecode flag from the reserved bit 5
PacketTypeFrom_reserved(byte) ==
    [version |-> CASE (byte \div 64) * 64 = 0 -> 0
                   [] (byte \div 64) * 64 = 64 -> 1
                   [] (byte \div 64) * 64 = 128 -> 2
                   [] (byte \div 64) * 64 = 192 -> 3
                   [] OTHER -> 0,
     timecode |-> BitSet(byte, 32),
     storage |-> BitSet(byte, STORAGE),
     reply |-> BitSet(byte, REPLY),
     query |-> BitSet(byte, QUERY),
     push |-> BitSet(byte, PUSH)]

\* impl From<u8> for PacketType: byte & 0xC0 selects the version 0..3
PacketTypeFrom(byte) ==
    [version |-> CASE (byte \div 64) * 64 = 0 -> 0
                   [] (byte \div 64) * 64 = 64 -> 1
                   [] (byte \div 64) * 64 = 128 -> 2
                   [] (byte \div 64) * 64 = 192 -> 3
                   [] OTHER -> 0,
     timecode |-> BitSet(byte, TIMECODE),
     storage |-> BitSet(byte, STORAGE),
     reply |-> BitSet(byte, REPLY),
     query |-> BitSet(byte, QUERY),
     push |-> BitSet(byte, PUSH)]

\* ------------------------------------------------------------------------
\* protocol::PixelConfig
\* ------------------------------------------------------------------------

\* impl Default for PixelConfig
PixelConfigDefault ==
    [data_type |-> "RGB", data_size |-> "Pixel24Bits", customer_defined |-> FALSE]

DataTypeCode(t) ==
    CASE t = "Undefined" -> 0
      [] t = "RGB" -> 1
      [] t = "HSL" -> 2
      [] t = "RGBW" -> 3
      [] t = "Grayscale" -> 4

PixelFormatCode(f) ==
    CASE f = "Undefined" -> 0
      [] f = "Pixel1Bits" -> 1
      [] f = "Pixel4Bits" -> 2
      [] f = "Pixel8Bits" -> 3
      [] f = "Pixel16Bits" -> 4
      [] f = "Pixel24Bits" -> 5
      [] f = "Pixel32Bits" -> 6

\* PixelConfigInto with the data type shifted one bit too far
PixelConfigInto_shift4(pc) ==
    DataTypeCode(pc.data_type) * 16
      + PixelFormatCode(pc.data_size)
      + (IF pc.customer_defined THEN 128 ELSE 0)

\* impl Into<u8> for PixelConfig
PixelConfigInto(pc) ==
    DataTypeCode(pc.data_type) * 8
      + PixelFormatCode(pc.data_size)
      + (IF pc.customer_defined THEN 128 ELSE 0)

\* the match on (byte >> 3) & 0x07
DataTypeFrom(code) ==
    CASE code = 0 -> "Undefined"
      [] code = 1 -> "RGB"
      [] code = 2 -> "HSL"
      [] code = 3 -> "RGBW"
      [] code = 4 -> "Grayscale"
      [] OTHER -> "Undefined"

\* the match on byte & 0x07
PixelFormatFrom(code) ==
    CASE code = 0 -> "Undefined"
      [] code = 1 -> "Pixel1Bits"
      [] code = 2 -> "Pixel4Bits"
      [] code = 3 -> "Pixel8Bits"
      [] code = 4 -> "Pixel16Bits"
      [] code = 5 -> "Pixel24Bits"
      [] code = 6 -> "Pixel32Bits"
      [] OTHER -> "Undefined"

\* PixelConfigFrom reading the data type from bits 6..4
PixelConfigFrom_shift4(byte) ==
    [data_type |-> DataTypeFrom((byte \div 16) % 8),
     data_size |-> PixelFormatFrom(byte % 8),
     customer_defined |-> (byte \div 128) # 0]

\* impl From<u8> for PixelConfig
PixelConfigFrom(byte) ==
    [data_type |-> DataTypeFrom((byte \div 8) % 8),
     data_size |-> PixelFormatFrom(byte % 8),
     customer_defined |-> (byte \div 128) # 0]

\* ------------------------------------------------------------------------
\* protocol::ID
\* ------------------------------------------------------------------------

MkID(t) == [tag |-> t, value |-> 0]
Custom(v) == [tag |-> "Custom", value |-> v]

\* #[default] Default
IDDefault == MkID("Default")

\* IDInto passing every Custom value through
IDInto_unchecked(i) ==
    CASE i.tag = "Reserved" -> 0
      [] i.tag = "Default" -> 1
      [] i.tag = "Control" -> 246
      [] i.tag = "Config" -> 250
      [] i.tag = "Status" -> 251
      [] i.tag = "DMX" -> 254
      [] i.tag = "Broadcast" -> 255
      [] i.tag = "Custom" -> i.value

\* impl Into<u8> for ID
IDInto(i) ==
    CASE i.tag = "Reserved" -> 0
      [] i.tag = "Default" -> 1
      [] i.tag = "Control" -> 246
      [] i.tag = "Config" -> 250
      [] i.tag = "Status" -> 251
      [] i.tag = "DMX" -> 254
      [] i.tag = "Broadcast" -> 255
      [] i.tag = "Custom" ->
            IF \/ (2 <= i.value /\ i.value <= 245)
               \/ (247 <= i.value /\ i.value <= 249)
               \/ (252 <= i.value /\ i.value <= 253)
            THEN i.value
            ELSE 1

\* IDFrom with a second Control byte, 249
IDFrom_control249(value) ==
    CASE value = 0 -> MkID("Reserved")
      [] value = 1 -> MkID("Default")
      [] value = 246 -> MkID("Control")
      [] value = 249 -> MkID("Control")
      [] value = 250 -> MkID("Config")
      [] value = 251 -> MkID("Status")
      [] value = 254 -> MkID("DMX")
      [] value = 255 -> MkID("Broadcast")
      [] OTHER -> Custom(value)

\* impl From<u8> for ID
IDFrom(value) ==
    CASE value = 0 -> MkID("Reserved")
      [] value = 1 -> MkID("Default")
      [] value = 246 -> MkID("Control")
      [] value = 250 -> MkID("Config")
      [] value = 251 -> MkID("Status")
      [] value = 254 -> MkID("DMX")
      [] value = 255 -> MkID("Broadcast")
      [] OTHER -> Custom(value)

\* ------------------------------------------------------------------------
\* protocol::timecode::TimeCode and protocol::Header
\* ------------------------------------------------------------------------

\* TimeCode(None)
TimeCodeNone == [some |-> FALSE, value |-> 0]

\* u32::to_be_bytes
U32ToBe(n) ==
    << (n \div 16777216) % 256, (n \div 65536) % 256, (n \div 256) % 256, n % 256 >>

\* u16::to_be_bytes
U16ToBe(n) == << (n \div 256) % 256, n % 256 >>

\* u32::from_be_bytes
U32FromBe(b) == b[1] * 16777216 + b[2] * 65536 + b[3] * 256 + b[4]

\* u16::from_be_bytes
U16FromBe(b) == b[1] * 256 + b[2]

\* TimeCode::to_bytes
TimeCodeToBytes(tc) == U32ToBe(IF tc.some THEN tc.value ELSE 0)

\* #[derive(Default)] for Header
HeaderDefault ==
    [packet_type |-> PacketTypeDefault,
     sequence_number |-> 0,
     pixel_config |-> PixelConfigDefault,
     id |-> IDDefault,
     offset |-> 0,
     length |-> 0,
     time_code |-> TimeCodeNone]

\* impl Into<[u8; 10]> for Header
HeaderInto10(h) ==
    << PacketTypeInto(h.packet_type), h.sequence_number,
       PixelConfigInto(h.pixel_config), IDInto(h.id) >>
      \o U32ToBe(h.offset) \o U16ToBe(h.length)

\* impl Into<[u8; 14]> for Header
HeaderInto14(h) == HeaderInto10(h) \o TimeCodeToBytes(h.time_code)

\* TimeCode::from_4_bytes
TimeCodeFrom4Bytes(b) == [some |-> TRUE, value |-> U32FromBe(b)]

\* HeaderFrom keeping only the low four bits of the sequence number
HeaderFrom_seq4(bytes) ==
    LET packet_type == PacketTypeFrom(bytes[1])
    IN  [packet_type |-> packet_type,
         sequence_number |-> bytes[2] % 16,
         pixel_config |-> PixelConfigFrom(bytes[3]),
         id |-> IDFrom(bytes[4]),
         offset |-> U32FromBe(SubSeq(bytes, 5, 8)),
         length |-> U16FromBe(SubSeq(bytes, 9, 10)),
         time_code |-> IF packet_type.timecode /\ Len(bytes) >= 14
                       THEN TimeCodeFrom4Bytes(SubSeq(bytes, 11, 14))
                       ELSE TimeCodeNone]

\* impl From<&[u8]> for Header, on a slice of at least 10 bytes
HeaderFrom(bytes) ==
    LET packet_type == PacketTypeFrom(bytes[1])
    IN  [packet_type |-> packet_type,
         sequence_number |-> bytes[2],
         pixel_config |-> PixelConfigFrom(bytes[3]),
         id |-> IDFrom(bytes[4]),
         offset |-> U32FromBe(SubSeq(bytes, 5, 8)),
         length |-> U16FromBe(SubSeq(bytes, 9, 10)),
         time_code |-> IF packet_type.timecode /\ Len(bytes) >= 14
                       THEN TimeCodeFrom4Bytes(SubSeq(bytes, 11, 14))
                       ELSE TimeCodeNone]

\* ------------------------------------------------------------------------
\* protocol::message::Message and its JSON serialization
\* ------------------------------------------------------------------------

\* Option<T>
NoneV == [some |-> FALSE, v |-> 0]
Some(x) == [some |-> TRUE, v |-> x]

\* serde_json::Value and the values derive(Serialize) hands to the serializer.
\* Object members are kept in emission order.
JNull == [t |-> "null"]
JBool(b) == [t |-> "bool", b |-> b]
JNum(n) == [t |-> "num", n |-> n]
JStr(s) == [t |-> "str", s |-> s]
JArr(a) == [t |-> "arr", a |-> a]
JObj(o) == [t |-> "obj", o |-> o]

\* ASCII of the field names of message.rs (serde names), and of the key of
\* the untyped sample message
K ==
    [ control |-> << 99, 111, 110, 116, 114, 111, 108 >>,
      fx |-> << 102, 120 >>,
      int |-> << 105, 110, 116 >>,
      spd |-> << 115, 112, 100 >>,
      dir |-> << 100, 105, 114 >>,
      colors |-> << 99, 111, 108, 111, 114, 115 >>,
      save |-> << 115, 97, 118, 101 >>,
      power |-> << 112, 111, 119, 101, 114 >>,
      r |-> << 114 >>,
      g |-> << 103 >>,
      b |-> << 98 >>,
      status |-> << 115, 116, 97, 116, 117, 115 >>,
      update |-> << 117, 112, 100, 97, 116, 101 >>,
      state |-> << 115, 116, 97, 116, 101 >>,
      man |-> << 109, 97, 110 >>,
      mod |-> << 109, 111, 100 >>,
      ver |-> << 118, 101, 114 >>,
      mac |-> << 109, 97, 99 >>,
      push |-> << 112, 117, 115, 104 >>,
      ntp |-> << 110, 116, 112 >>,
      config |-> << 99, 111, 110, 102, 105, 103 >>,
      ip |-> << 105, 112 >>,
      nm |-> << 110, 109 >>,
      gw |-> << 103, 119 >>,
      ports |-> << 112, 111, 114, 116, 115 >>,
      port |-> << 112, 111, 114, 116 >>,
      ts |-> << 116, 115 >>,
      l |-> << 108 >>,
      ss |-> << 115, 115 >>,
      brightness |-> << 98, 114, 105, 103, 104, 116, 110, 101, 115, 115 >> ]

\* the literals null, true, false
Lit ==
    [ null |-> << 110, 117, 108, 108 >>,
      true |-> << 116, 114, 117, 101 >>,
      false |-> << 102, 97, 108, 115, 101 >> ]

\* decimal digits of an unsigned integer
RECURSIVE Digits(_)
Digits(n) == IF n < 10 THEN << 48 + n >> ELSE Digits(n \div 10) \o << 48 + (n % 10) >>

\* a JSON string: quotes around the text, '"' and '\' escaped with '\'
\* (texts of the model hold no control characters)
RECURSIVE Escaped(_)
Escaped(s) ==
    IF s = << >> THEN << >>
    ELSE (IF Head(s) \in {34, 92} THEN << 92, Head(s) >> ELSE << Head(s) >>)
           \o Escaped(Tail(s))

\* serde_json::to_vec: compact output, no whitespace
RECURSIVE ToJson(_)
RECURSIVE JoinArr(_)
RECURSIVE JoinObj(_)
JoinArr(a) ==
    IF a = << >> THEN << >>
    ELSE ToJson(Head(a)) \o (IF Len(a) > 1 THEN << 44 >> ELSE << >>) \o JoinArr(Tail(a))
JoinObj(o) ==
    IF o = << >> THEN << >>
    ELSE << 34 >> \o Escaped(Head(o)[1]) \o << 34, 58 >> \o ToJson(Head(o)[2])
           \o (IF Len(o) > 1 THEN << 44 >> ELSE << >>) \o JoinObj(Tail(o))
ToJson(v) ==
    CASE v.t = "null" -> Lit.null
      [] v.t = "bool" -> IF v.b THEN Lit.true ELSE Lit.false
      [] v.t = "num" -> Digits(v.n)
      [] v.t = "str" -> << 34 >> \o Escaped(v.s) \o << 34 >>
      [] v.t = "arr" -> << 91 >> \o JoinArr(v.a) \o << 93 >>
      [] v.t = "obj" -> << 123 >> \o JoinObj(v.o) \o << 125 >>

\* Option<String>, Option<u32>, Option<bool> as serialized by serde
OptStr(x) == IF x.some THEN JStr(x.v) ELSE JNull
OptNum(x) == IF x.some THEN JNum(x.v) ELSE JNull
OptBool(x) == IF x.some THEN JBool(x.v) ELSE JNull

\* struct Color
ColorValue(c) == JObj(<< << K.r, JNum(c.r) >>, << K.g, JNum(c.g) >>, << K.b, JNum(c.b) >> >>)

\* struct ControlRoot { control: Control }
ControlRootValue(c) ==
    JObj(<< << K.control,
       JObj(<< << K.fx, OptStr(c.fx) >>,
               << K.int, OptNum(c.int) >>,
               << K.spd, OptNum(c.spd) >>,
               << K.dir, OptNum(c.dir) >>,
               << K.colors, IF c.colors.some
                            THEN JArr([i \in 1..Len(c.colors.v) |-> ColorValue(c.colors.v[i])])
                            ELSE JNull >>,
               << K.save, OptNum(c.save) >>,
               << K.power, OptNum(c.power) >> >>) >> >>)

\* struct StatusRoot { status: Status }
StatusRootValue(x) ==
    JObj(<< << K.status,
       JObj(<< << K.update, OptStr(x.update) >>,
               << K.state, OptStr(x.state) >>,
               << K.man, OptStr(x.man) >>,
               << K.mod, OptStr(x.model) >>,
               << K.ver, OptStr(x.ver) >>,
               << K.mac, OptStr(x.mac) >>,
               << K.push, OptBool(x.push) >>,
               << K.ntp, OptBool(x.ntp) >> >>) >> >>)

\* struct Port
PortValue(p) ==
    JObj(<< << K.port, JNum(p.port) >>, << K.ts, JNum(p.ts) >>,
            << K.l, JNum(p.l) >>, << K.ss, JNum(p.ss) >> >>)

\* struct ConfigRoot { config: Config }
ConfigRootValue(c) ==
    JObj(<< << K.config,
       JObj(<< << K.ip, OptStr(c.ip) >>,
               << K.nm, OptStr(c.nm) >>,
               << K.gw, OptStr(c.gw) >>,
               << K.ports, JArr([i \in 1..Len(c.ports) |-> PortValue(c.ports[i])]) >> >>) >> >>)

\* enum Message: variant, the ID a Parsed/Unparsed message carries, the payload
MsgControl(c) == [variant |-> "Control", id |-> MkID("Control"), body |-> c]
MsgStatus(x) == [variant |-> "Status", id |-> MkID("Status"), body |-> x]
MsgConfig(c) == [variant |-> "Config", id |-> MkID("Config"), body |-> c]
MsgParsed(i, v) == [variant |-> "Parsed", id |-> i, body |-> v]
MsgUnparsed(i, s) == [variant |-> "Unparsed", id |-> i, body |-> s]

\* impl TryInto<Vec<u8>> for Message
MessageTryInto(msg) ==
    CASE msg.variant = "Control" -> OkRet(ToJson(ControlRootValue(msg.body)))
      [] msg.variant = "Status" -> OkRet(ToJson(StatusRootValue(msg.body)))
      [] msg.variant = "Config" -> OkRet(ToJson(ConfigRootValue(msg.body)))
      [] msg.variant = "Parsed" -> OkRet(ToJson(msg.body))
      [] msg.variant = "Unparsed" -> OkRet(msg.body)

\* get_id answering Control for the variants that carry their own ID
get_id_control(msg) ==
    CASE msg.variant = "Control" -> MkID("Control")
      [] msg.variant = "Status" -> MkID("Status")
      [] msg.variant = "Config" -> MkID("Config")
      [] msg.variant = "Parsed" -> MkID("Control")
      [] msg.variant = "Unparsed" -> MkID("Control")

\* Message::get_id
get_id(msg) ==
    CASE msg.variant = "Control" -> MkID("Control")
      [] msg.variant = "Status" -> MkID("Status")
      [] msg.variant = "Config" -> MkID("Config")
      [] msg.variant = "Parsed" -> msg.id
      [] msg.variant = "Unparsed" -> msg.id

\* ------------------------------------------------------------------------
\* serde_json::from_slice and std::str::from_utf8, as packet.rs uses them.
\* The parser covers the JSON of the model's inputs: white space, the three
\* literals, unsigned integers, strings with one-character escapes, arrays
\* and objects (no fractions, exponents, signs or \u escapes occur).
\* ------------------------------------------------------------------------

\* s[p] exists and lies in lo..hi
InRange(s, p, lo, hi) == p <= Len(s) /\ s[p] >= lo /\ s[p] <= hi

\* std::str::from_utf8(..).is_ok(): well-formed UTF-8 (no overlong forms, no
\* surrogates, nothing above U+10FFFF)
RECURSIVE utf8_from(_, _)
utf8_from(s, p) ==
    IF p > Len(s) THEN TRUE
    ELSE LET c == s[p] IN
      CASE c < 128 -> utf8_from(s, p + 1)
        [] c >= 194 /\ c <= 223 ->
              InRange(s, p + 1, 128, 191) /\ utf8_from(s, p + 2)
        [] c = 224 ->
              InRange(s, p + 1, 160, 191) /\ InRange(s, p + 2, 128, 191)
                /\ utf8_from(s, p + 3)
        [] (c >= 225 /\ c <= 236) \/ c = 238 \/ c = 239 ->
              InRange(s, p + 1, 128, 191) /\ InRange(s, p + 2, 128, 191)
                /\ utf8_from(s, p + 3)
        [] c = 237 ->
              InRange(s, p + 1, 128, 159) /\ InRange(s, p + 2, 128, 191)
                /\ utf8_from(s, p + 3)
        [] c = 240 ->
              InRange(s, p + 1, 144, 191) /\ InRange(s, p + 2, 128, 191)
                /\ InRange(s, p + 3, 128, 191) /\ utf8_from(s, p + 4)
        [] c >= 241 /\ c <= 243 ->
              InRange(s, p + 1, 128, 191) /\ InRange(s, p + 2, 128, 191)
                /\ InRange(s, p + 3, 128, 191) /\ utf8_from(s, p + 4)
        [] c = 244 ->
              InRange(s, p + 1, 128, 143) /\ InRange(s, p + 2, 128, 191)
                /\ InRange(s, p + 3, 128, 191) /\ utf8_from(s, p + 4)
        [] OTHER -> FALSE

from_utf8_ok(s) == utf8_from(s, 1)

\* result of a parser step: the value and the position after it
PFail == [ok |-> FALSE, v |-> JNull, pos |-> 0]
POk(v, p) == [ok |-> TRUE, v |-> v, pos |-> p]

\* JSON white space: space, \t, \n, \r
RECURSIVE skip_ws(_, _)
skip_ws(b, p) ==
    IF p <= Len(b) /\ b[p] \in {32, 9, 10, 13} THEN skip_ws(b, p + 1) ELSE p

\* the bytes lit stand at position p of b
HasAt(b, p, lit) ==
    p + Len(lit) - 1 <= Len(b) /\ SubSeq(b, p, p + Len(lit) - 1) = lit

\* the character a one-character escape stands for:  \" \\ \/ \b \f \n \r \t
Unescape(c) ==
    CASE c = 98 -> 8
      [] c = 102 -> 12
      [] c = 110 -> 10
      [] c = 114 -> 13
      [] c = 116 -> 9
      [] OTHER -> c

\* a string, p just after the opening quote: raw control characters and
\* ill-formed UTF-8 are errors
RECURSIVE parse_str(_, _, _)
parse_str(b, p, acc) ==
    IF p > Len(b) THEN PFail
    ELSE IF b[p] = 34
         THEN IF from_utf8_ok(acc) THEN POk(JStr(acc), p + 1) ELSE PFail
    ELSE IF b[p] = 92
         THEN IF p + 1 <= Len(b) /\ b[p + 1] \in {34, 92, 47, 98, 102, 110, 114, 116}
              THEN parse_str(b, p + 2, Append(acc, Unescape(b[p + 1])))
              ELSE PFail
    ELSE IF b[p] < 32 THEN PFail
    ELSE parse_str(b, p + 1, Append(acc, b[p]))

\* an unsigned integer: 0, or digits that do not start with 0
RECURSIVE parse_digits(_, _, _)
parse_digits(b, p, n) ==
    IF InRange(b, p, 48, 57)
    THEN parse_digits(b, p + 1, 10 * n + (b[p] - 48))
    ELSE POk(JNum(n), p)

parse_num(b, p) ==
    IF b[p] = 48
    THEN IF InRange(b, p + 1, 48, 57) THEN PFail ELSE POk(JNum(0), p + 1)
    ELSE parse_digits(b, p, 0)

RECURSIVE parse_value(_, _)
RECURSIVE parse_elems(_, _, _)
RECURSIVE parse_members(_, _, _)

\* the elements of an array after '[' or ',', up to ']'
parse_elems(b, p, acc) ==
    LET r == parse_value(b, p) IN
    IF ~r.ok THEN PFail
    ELSE LET q == skip_ws(b, r.pos) IN
         IF q > Len(b) THEN PFail
         ELSE IF b[q] = 44 THEN parse_elems(b, q + 1, Append(acc, r.v))
         ELSE IF b[q] = 93 THEN POk(JArr(Append(acc, r.v)), q + 1)
         ELSE PFail

\* the members of an object after '{' or ',', up to '}', in document order
parse_members(b, p0, acc) ==
    LET p == skip_ws(b, p0) IN
    IF ~InRange(b, p, 34, 34) THEN PFail
    ELSE LET k == parse_str(b, p + 1, << >>) IN
         IF ~k.ok THEN PFail
         ELSE LET c == skip_ws(b, k.pos) IN
              IF ~InRange(b, c, 58, 58) THEN PFail
              ELSE LET r == parse_value(b, c + 1) IN
                   IF ~r.ok THEN PFail
                   ELSE LET q == skip_ws(b, r.pos)
                            m == Append(acc, << k.v.s, r.v >>)
                        IN  IF q > Len(b) THEN PFail
                            ELSE IF b[q] = 44 THEN parse_members(b, q + 1, m)
                            ELSE IF b[q] = 125 THEN POk(JObj(m), q + 1)
                            ELSE PFail

\* one JSON value after optional white space
parse_value(b, p0) ==
    LET p == skip_ws(b, p0) IN
    IF p > Len(b) THEN PFail
    ELSE CASE b[p] = 110 -> IF HasAt(b, p, Lit.null) THEN POk(JNull, p + 4) ELSE PFail
           [] b[p] = 116 -> IF HasAt(b, p, Lit.true) THEN POk(JBool(TRUE), p + 4) ELSE PFail
           [] b[p] = 102 -> IF HasAt(b, p, Lit.false) THEN POk(JBool(FALSE), p + 5) ELSE PFail
           [] b[p] = 34 -> parse_str(b, p + 1, << >>)
           [] b[p] >= 48 /\ b[p] <= 57 -> parse_num(b, p)
           [] b[p] = 91 ->
                 LET q == skip_ws(b, p + 1) IN
                 IF InRange(b, q, 93, 93) THEN POk(JArr(<< >>), q + 1)
                 ELSE parse_elems(b, q, << >>)
           [] b[p] = 123 ->
                 LET q == skip_ws(b, p + 1) IN
                 IF InRange(b, q, 125, 125) THEN POk(JObj(<< >>), q + 1)
                 ELSE parse_members(b, q, << >>)
           [] OTHER -> PFail

\* Result<T, serde_json::Error> of a deserialization
DeFail == [ok |-> FALSE, v |-> 0]
DeOk(x) == [ok |-> TRUE, v |-> x]

\* serde_json::from_slice::<Value>: one value, then only white space
from_slice_value(b) ==
    LET r == parse_value(b, 1) IN
    IF r.ok /\ skip_ws(b, r.pos) > Len(b) THEN DeOk(r.v) ELSE DeFail

\* the types of message.rs as serde sees them
TyString == [k |-> "string"]
TyU32 == [k |-> "u32"]
TyBool == [k |-> "bool"]
TyOption(ty) == [k |-> "option", of |-> ty]
TyVec(ty) == [k |-> "vec", of |-> ty]
TyStruct(fields) == [k |-> "struct", fields |-> fields]
Field(name, key, ty) == [name |-> name, key |-> key, ty |-> ty]

\* struct Color
TyColor ==
    TyStruct(<< Field("r", K.r, TyU32), Field("g", K.g, TyU32), Field("b", K.b, TyU32) >>)

\* struct Control
TyControl ==
    TyStruct(<< Field("fx", K.fx, TyOption(TyString)),
                Field("int", K.int, TyOption(TyU32)),
                Field("spd", K.spd, TyOption(TyU32)),
                Field("dir", K.dir, TyOption(TyU32)),
                Field("colors", K.colors, TyOption(TyVec(TyColor))),
                Field("save", K.save, TyOption(TyU32)),
                Field("power", K.power, TyOption(TyU32)) >>)

\* struct ControlRoot
TyControlRoot == TyStruct(<< Field("control", K.control, TyControl) >>)

\* struct Status
TyStatus ==
    TyStruct(<< Field("update", K.update, TyOption(TyString)),
                Field("state", K.state, TyOption(TyString)),
                Field("man", K.man, TyOption(TyString)),
                Field("model", K.mod, TyOption(TyString)),
                Field("ver", K.ver, TyOption(TyString)),
                Field("mac", K.mac, TyOption(TyString)),
                Field("push", K.push, TyOption(TyBool)),
                Field("ntp", K.ntp, TyOption(TyBool)) >>)

\* struct StatusRoot
TyStatusRoot == TyStruct(<< Field("status", K.status, TyStatus) >>)

\* struct Port
TyPort ==
    TyStruct(<< Field("port", K.port, TyU32), Field("ts", K.ts, TyU32),
                Field("l", K.l, TyU32), Field("ss", K.ss, TyU32) >>)

\* struct Config
TyConfig ==
    TyStruct(<< Field("ip", K.ip, TyOption(TyString)),
                Field("nm", K.nm, TyOption(TyString)),
                Field("gw", K.gw, TyOption(TyString)),
                Field("ports", K.ports, TyVec(TyPort)) >>)

\* struct ConfigRoot
TyConfigRoot == TyStruct(<< Field("config", K.config, TyConfig) >>)

\* the input of derive(Deserialize) for a struct: an object (unknown keys
\* skipped, a repeated field is an error) or an array of exactly one element
\* per field; slot n says whether field n is given, and its value
Fields(j, fields) ==
    CASE j.t = "obj" ->
           IF \E i \in 1..Len(j.o), k \in 1..Len(j.o) :
                 i # k /\ j.o[i][1] = j.o[k][1]
                   /\ \E n \in 1..Len(fields) : fields[n].key = j.o[i][1]
           THEN [ok |-> FALSE, slot |-> << >>]
           ELSE [ok |-> TRUE,
                 slot |-> [n \in 1..Len(fields) |->
                    IF \E i \in 1..Len(j.o) : j.o[i][1] = fields[n].key
                    THEN [given |-> TRUE,
                          j |-> j.o[CHOOSE i \in 1..Len(j.o) :
                                       j.o[i][1] = fields[n].key][2]]
                    ELSE [given |-> FALSE, j |-> JNull]]]
      [] j.t = "arr" ->
           IF Len(j.a) = Len(fields)
           THEN [ok |-> TRUE,
                 slot |-> [n \in 1..Len(fields) |-> [given |-> TRUE, j |-> j.a[n]]]]
           ELSE [ok |-> FALSE, slot |-> << >>]
      [] OTHER -> [ok |-> FALSE, slot |-> << >>]

\* Deserialize for a value of type ty: a missing field is None for an
\* Option and an error for any other type; numbers of the model fit u32
RECURSIVE Deserialize(_, _)
Deserialize(ty, j) ==
    CASE ty.k = "string" -> IF j.t = "str" THEN DeOk(j.s) ELSE DeFail
      [] ty.k = "u32" -> IF j.t = "num" THEN DeOk(j.n) ELSE DeFail
      [] ty.k = "bool" -> IF j.t = "bool" THEN DeOk(j.b) ELSE DeFail
      [] ty.k = "option" ->
           IF j.t = "null" THEN DeOk(NoneV)
           ELSE LET r == Deserialize(ty.of, j)
                IN  IF r.ok THEN DeOk(Some(r.v)) ELSE DeFail
      [] ty.k = "vec" ->
           IF j.t # "arr" THEN DeFail
           ELSE LET r == [i \in 1..Len(j.a) |-> Deserialize(ty.of, j.a[i])]
                IN  IF \A i \in 1..Len(j.a) : r[i].ok
                    THEN DeOk([i \in 1..Len(j.a) |-> r[i].v])
                    ELSE DeFail
      [] ty.k = "struct" ->
           LET f == Fields(j, ty.fields) IN
           IF ~f.ok THEN DeFail
           ELSE LET r == [n \in 1..Len(ty.fields) |->
                            IF f.slot[n].given
                            THEN Deserialize(ty.fields[n].ty, f.slot[n].j)
                            ELSE IF ty.fields[n].ty.k = "option" THEN DeOk(NoneV)
                            ELSE DeFail]
                IN  IF \A n \in 1..Len(ty.fields) : r[n].ok
                    THEN DeOk([name \in {ty.fields[n].name : n \in 1..Len(ty.fields)} |->
                                 r[CHOOSE n \in 1..Len(ty.fields) :
                                      ty.fields[n].name = name].v])
                    ELSE DeFail

\* serde_json::from_slice::<T> for a struct T of message.rs, given the
\* outcome json of reading the slice as a JSON value
from_slice_typed(json, ty) ==
    IF json.ok THEN Deserialize(ty, json.v) ELSE DeFail

\* ------------------------------------------------------------------------
\* packet::Packet
\* ------------------------------------------------------------------------

\* the Packet from_bytes returns for an input too short for its header
PacketDefault == [header |-> HeaderDefault, data |-> << >>, parsed |-> NoneV]

\* outcome of a call: the value returned, or a panic (index out of bounds)
Returned(p) == [panic |-> FALSE, packet |-> p]
Panicked == [panic |-> TRUE, packet |-> PacketDefault]

\* the second length test comparing with 10 whatever the header size
too_short_ten(bytes, header_size) == Len(bytes) < 10

\* bytes.len() < header_size
too_short(bytes, header_size) == Len(bytes) < header_size

\* the payload taken from byte 10 whatever the header size
payload_of_ten(bytes, header_size) == SubSeq(bytes, 11, Len(bytes))

\* &bytes[header_size..]
payload_of(bytes, header_size) == SubSeq(bytes, header_size + 1, Len(bytes))

\* first stage: the typed schema of the header ID.  json is the outcome of
\* reading the payload as a JSON value, which every from_slice call of
\* from_bytes starts with
typed_stage(i, json) ==
    CASE i.tag = "Control" ->
           LET r == from_slice_typed(json, TyControlRoot)
           IN  IF r.ok THEN Some(MsgControl(r.v.control)) ELSE NoneV
      [] i.tag = "Config" ->
           LET r == from_slice_typed(json, TyConfigRoot)
           IN  IF r.ok THEN Some(MsgConfig(r.v.config)) ELSE NoneV
      [] i.tag = "Status" ->
           LET r == from_slice_typed(json, TyStatusRoot)
           IN  IF r.ok THEN Some(MsgStatus(r.v.status)) ELSE NoneV
      [] OTHER -> NoneV

\* the later stages tried for every header ID
has_fallback_any(i) == TRUE

\* the IDs whose match arm tries the later stages
has_fallback(i) == i.tag \in {"Control", "Config", "Status"}

\* the later stages with UTF-8 text tried before untyped JSON
fallback_stage_text_first(i, json, data) ==
    IF has_fallback(i)
    THEN IF from_utf8_ok(data) THEN Some(MsgUnparsed(i, data))
         ELSE IF json.ok THEN Some(MsgParsed(i, json.v))
         ELSE NoneV
    ELSE NoneV

\* later stages: untyped JSON, then UTF-8 text, then nothing
fallback_stage(i, json, data) ==
    IF has_fallback(i)
    THEN IF json.ok THEN Some(MsgParsed(i, json.v))
         ELSE IF from_utf8_ok(data) THEN Some(MsgUnparsed(i, data))
         ELSE NoneV
    ELSE NoneV

\* the match of from_bytes on a reply packet
parse_reply(i, data) ==
    LET json == from_slice_value(data)
        t == typed_stage(i, json)
    IN  IF t.some THEN t ELSE fallback_stage(i, json, data)

\* message decoding attempted for every packet
is_reply_any(header) == TRUE

\* `if header.packet_type.reply`: message decoding is attempted
is_reply(header) == header.packet_type.reply

\* Packet::from_bytes
from_bytes(bytes) ==
    IF Len(bytes) < 10 THEN Returned(PacketDefault)
    ELSE LET has_timecode == BitSet(bytes[1], 16)
             header_size == IF has_timecode THEN 14 ELSE 10
         IN  IF too_short(bytes, header_size) THEN Returned(PacketDefault)
             \* &bytes[0..header_size] past the end of bytes panics
             ELSE IF header_size > Len(bytes) THEN Panicked
             ELSE LET header == HeaderFrom(SubSeq(bytes, 1, header_size))
                      data == payload_of(bytes, header_size)
                      parsed == IF is_reply(header)
                                THEN parse_reply(header.id, data)
                                ELSE NoneV
                  IN  Returned([header |-> header, data |-> data, parsed |-> parsed])

\* ------------------------------------------------------------------------
\* DDPConnection
\* ------------------------------------------------------------------------

VARIABLES
    sequence_number,  \* DDPConnection.sequence_number: u8
    buffer,           \* DDPConnection.buffer: [u8; 1500]
    pixel_config,     \* DDPConnection.pixel_config
    id,               \* DDPConnection.id
    wire,             \* datagrams the last call transmitted through the socket
    call,             \* the last call: operation, arguments, counter at entry, result
    nsent,            \* datagrams transmitted since construction
    codec,            \* the last call of a codec function: name, input, result
    receiver_packet,  \* DDPConnection.receiver_packet: the channel's queue and
                      \* the number of its Senders that live
    connections,      \* Controller.connections: IP address -> the Sender it holds
    channels,         \* per address, the channel Controller::connect made
    socket,           \* datagrams that wait in the Controller's socket
    dispatcher,       \* the thread new_with_socket spawned
    arrivals          \* every datagram that reached the Controller's socket

vars == << sequence_number, buffer, pixel_config, id, wire, call, nsent, codec,
           receiver_packet, connections, channels, socket, dispatcher, arrivals >>

\* the state of the Controller
ctl_vars == << connections, channels, socket, dispatcher, arrivals >>

\* no codec function has been called
CodecIdle == [op |-> "none"]

\* assemble_packet answering the size of a full datagram whatever the chunk
assemble_packet_full(buf, header, data) ==
    LET hb == IF header.packet_type.timecode
              THEN HeaderInto14(header)
              ELSE HeaderInto10(header)
        header_bytes == Len(hb)
    IN  [buffer |-> [i \in 1..BUFFER_SIZE |->
                        IF i <= header_bytes THEN hb[i]
                        ELSE IF i <= header_bytes + Len(data) THEN data[i - header_bytes]
                        ELSE buf[i]],
         len |-> header_bytes + MAX_DATA_LENGTH]

\* DDPConnection::assemble_packet: header and chunk are copied to the front
\* of the reused buffer, the rest of the buffer is left as it was
assemble_packet(buf, header, data) ==
    LET hb == IF header.packet_type.timecode
              THEN HeaderInto14(header)
              ELSE HeaderInto10(header)
        header_bytes == Len(hb)
    IN  [buffer |-> [i \in 1..BUFFER_SIZE |->
                        IF i <= header_bytes THEN hb[i]
                        ELSE IF i <= header_bytes + Len(data) THEN data[i - header_bytes]
                        ELSE buf[i]],
         len |-> header_bytes + Len(data)]

\* send_to counting the payload bytes only
send_to_payload(buf) == Len(buf) - 10

\* UdpSocket::send_to on a datagram the transport accepts: the whole
\* datagram is sent and its size returned
send_to(buf) == Len(buf)

\* the loop condition with <= for <
more_chunks_inclusive(offset, len) == offset <= len

\* the loop condition of slice_send
more_chunks(offset, len) == offset < len

\* a chunk end that lets a chunk be 40 bytes longer than MAX_DATA_LENGTH: the
\* datagram still fits the buffer but not the 1454 bytes
chunk_end_wide(offset, len) == Min(offset + MAX_DATA_LENGTH + 40, len)

\* the chunk end one byte short of a full chunk
chunk_end_short(offset, len) == Min(offset + MAX_DATA_LENGTH - 1, len)

\* the end of the chunk that starts at offset
chunk_end(offset, len) == Min(offset + MAX_DATA_LENGTH, len)

\* the sequence-number step at the end of one loop iteration of slice_send
NextSequenceNumber(s) == IF s > 15 THEN 1 ELSE s + 1

\* the while loop of slice_send.  st holds the locals and the fields of self
\* the loop touches, and for the record of the call the datagrams send_to
\* accepted (out), the number of datagrams handed to send_to (handed) and
\* the datagram send_to refused (failed); failAt is the number of the send_to
\* call of this slice_send that returns Err (0: every send succeeds).  The loop runs only
\* while offset < data.len(), so offset + MAX_DATA_LENGTH stays far below
\* 2^32 and `offset as u32` keeps its value
RECURSIVE slice_loop(_, _, _)

\* a failed send whose error is dropped: the loop goes on with the next chunk
send_failed_ignored(st, data, failAt) ==
    slice_loop([st EXCEPT !.offset = st.offset + MAX_DATA_LENGTH,
                          !.header = [st.header EXCEPT !.offset =
                                         st.offset + MAX_DATA_LENGTH]],
               data, failAt)

\* a failed send that still steps the counter before the error is returned
send_failed_advanced(st, data, failAt) ==
    [st EXCEPT !.ret = ErrRet("Disconnect"),
               !.sequence_number = NextSequenceNumber(st.sequence_number)]

\* `?` on the Err of send_to: slice_send returns the error at once, the
\* counter and the offset are not advanced
send_failed(st, data, failAt) == [st EXCEPT !.ret = ErrRet("Disconnect")]

slice_loop(st, data, failAt) ==
    IF ~more_chunks(st.offset, Len(data))
    THEN [st EXCEPT !.ret = OkRet(st.sent)]
    ELSE
      LET iter == st.iter + 1
          pt == IF iter = st.num_iterations
                THEN push(st.header.packet_type, TRUE)
                ELSE st.header.packet_type
          chunk == SubSeq(data, st.offset + 1, chunk_end(st.offset, Len(data)))
          h == [st.header EXCEPT !.packet_type = pt,
                                 !.sequence_number = st.sequence_number,
                                 !.length = Len(chunk) % U16]
          ap == assemble_packet(st.buffer, h, chunk)
          dgram == SubSeq(ap.buffer, 1, ap.len)
      IN  IF failAt = st.handed + 1
          THEN send_failed([st EXCEPT !.iter = iter, !.header = h,
                                      !.buffer = ap.buffer,
                                      !.handed = st.handed + 1,
                                      !.failed = dgram],
                           data, failAt)
          ELSE slice_loop(
                 [st EXCEPT !.iter = iter,
                            !.buffer = ap.buffer,
                            !.handed = st.handed + 1,
                            !.out = Append(st.out, dgram),
                            !.sent = st.sent + send_to(dgram),
                            !.sequence_number = NextSequenceNumber(st.sequence_number),
                            !.offset = st.offset + MAX_DATA_LENGTH,
                            !.header = [h EXCEPT !.offset =
                                           st.offset + MAX_DATA_LENGTH]],
                 data, failAt)

\* slice_send with a counter that starts at 1 in every call
slice_send_restart(seq, buf, header, data, failAt) ==
    slice_loop([header |-> header,
                offset |-> header.offset,
                sent |-> 0,
                num_iterations |-> (Len(data) + MAX_DATA_LENGTH - 1) \div MAX_DATA_LENGTH,
                iter |-> 0,
                sequence_number |-> 1,
                buffer |-> buf,
                out |-> << >>,
                handed |-> 0,
                failed |-> << >>,
                ret |-> OkRet(0)],
               data, failAt)

\* DDPConnection::slice_send
slice_send(seq, buf, header, data, failAt) ==
    slice_loop([header |-> header,
                offset |-> header.offset,
                sent |-> 0,
                num_iterations |-> (Len(data) + MAX_DATA_LENGTH - 1) \div MAX_DATA_LENGTH,
                iter |-> 0,
                sequence_number |-> seq,
                buffer |-> buf,
                out |-> << >>,
                handed |-> 0,
                failed |-> << >>,
                ret |-> OkRet(0)],
               data, failAt)

\* ------------------------------------------------------------------------
\* Operations
\* ------------------------------------------------------------------------

\* the effect on the connection of one call that ends in slice_send, and the
\* record of the call
Finish(op, data, offset, r) ==
    /\ sequence_number' = r.sequence_number
    /\ buffer' = r.buffer
    /\ wire' = r.out
    /\ nsent' = nsent + Len(r.out)
    /\ call' = [op |-> op, data |-> data, offset |-> offset,
                seq0 |-> sequence_number, ret |-> r.ret,
                handed |-> r.handed, failed |-> r.failed]
    /\ UNCHANGED << pixel_config, id, codec, receiver_packet, ctl_vars >>

\* the header of write without the stored ID
write_header_no_id(pc, i) ==
    [HeaderDefault EXCEPT
       !.packet_type = push(HeaderDefault.packet_type, FALSE),
       !.pixel_config = pc]

\* the header DDPConnection::write hands to slice_send
write_header(pc, i) ==
    [HeaderDefault EXCEPT
       !.packet_type = push(HeaderDefault.packet_type, FALSE),
       !.pixel_config = pc,
       !.id = i]

\* DDPConnection::write
write(data, failAt) ==
    Finish("write", data, 0,
           slice_send(sequence_number, buffer, write_header(pixel_config, id),
                      data, failAt))

\* the header DDPConnection::write_offset hands to slice_send
write_offset_header(pc, i, offset) ==
    [HeaderDefault EXCEPT
       !.packet_type = push(HeaderDefault.packet_type, FALSE),
       !.pixel_config = pc,
       !.id = i,
       !.offset = offset]

\* DDPConnection::write_offset
write_offset(data, offset, failAt) ==
    Finish("write_offset", data, offset,
           slice_send(sequence_number, buffer,
                      write_offset_header(pixel_config, id, offset),
                      data, failAt))

\* DDPConnection::write_message
write_message(msg, failAt) ==
    LET conv == MessageTryInto(msg)
        msg_data == conv.val
        h == [HeaderDefault EXCEPT
                !.packet_type = push(HeaderDefault.packet_type, FALSE),
                !.id = get_id(msg),
                !.length = Len(msg_data) % U16]
    IN  IF conv.ok
        THEN Finish("write_message", msg_data, 0,
                    slice_send(sequence_number, buffer, h, msg_data, failAt))
        ELSE /\ wire' = << >>
             /\ call' = [op |-> "write_message", data |-> << >>, offset |-> 0,
                         seq0 |-> sequence_number, ret |-> ErrRet("ParseError"),
                         handed |-> 0, failed |-> << >>]
             /\ UNCHANGED << sequence_number, buffer, pixel_config, id, nsent,
                             codec, receiver_packet, ctl_vars >>

\* Receiver::try_recv: the oldest queued message; with none queued, Empty
\* while a Sender of the channel lives and Disconnected once all are dropped
try_recv(ch) ==
    IF ch.queue # << >> THEN OkRet(Head(ch.queue))
    ELSE IF ch.senders > 0 THEN ErrRet("Empty")
    ELSE ErrRet("Disconnected")

\* DDPConnection::get_incoming
get_incoming ==
    LET r == try_recv(receiver_packet)
    IN  /\ receiver_packet' = IF r.ok
                               THEN [receiver_packet EXCEPT !.queue = Tail(@)]
                               ELSE receiver_packet
        /\ wire' = << >>
        /\ call' = [op |-> "get_incoming", data |-> << >>, offset |-> 0,
                    seq0 |-> sequence_number,
                    ret |-> IF r.ok THEN r
                            ELSE IF r.err = "Empty" THEN ErrRet("NothingToReceive")
                            ELSE ErrRet("CrossBeamError"),
                    handed |-> 0, failed |-> << >>]
        /\ UNCHANGED << sequence_number, buffer, pixel_config, id, nsent,
                        codec, ctl_vars >>

\* DashMap::new
EmptyMap == [k \in {} |-> 0]

\* the Controller is not part of a DDPConnection; no Controller was made
NoController ==
    /\ connections = EmptyMap
    /\ channels = << >>
    /\ socket = << >>
    /\ dispatcher = "none"
    /\ arrivals = << >>

\* DDPConnection::try_new(addr, pc, i, socket).  The Sender of the new channel
\* is the local _s, dropped when try_new returns: the Receiver the connection
\* keeps has no Sender
try_new(pc, i) ==
    /\ sequence_number = 1
    /\ buffer = [k \in 1..BUFFER_SIZE |-> 0]
    /\ pixel_config = pc
    /\ id = i
    /\ receiver_packet = [queue |-> << >>, senders |-> 0]
    /\ wire = << >>
    /\ nsent = 0
    /\ call = [op |-> "try_new", data |-> << >>, offset |-> 0,
               seq0 |-> 1, ret |-> OkRet(0),
               handed |-> 0, failed |-> << >>]

\* DDPConnection::try_new with the default PixelConfig and ID
Init ==
    /\ try_new(PixelConfigDefault, IDDefault)
    /\ codec = CodecIdle
    /\ NoController

\* ------------------------------------------------------------------------
\* Inputs
\* ------------------------------------------------------------------------

\* a payload of the given length whose bytes depend on their position
Gen(len) == [i \in 1..len |-> (1 + 7 * i) % 256]

\* a text of the given length (ASCII letters, so valid UTF-8)
GenText(len) == [i \in 1..len |-> 97 + (i % 26)]

\* the payloads of the tests and doc examples of connection.rs
Pixels3 == << 255, 0, 0, 0, 255, 0, 0, 0, 255 >>
Pixel1 == << 128, 128, 128 >>

DataLens ==
    {0, 2000, MAX_DATA_LENGTH} \cup { k * MAX_DATA_LENGTH + 1 : k \in 1..MaxChunks }

Payloads == { Pixels3, Pixel1 } \cup { Gen(len) : len \in DataLens }

Offsets == {0, 30, 1000}

ControlNone ==
    [fx |-> NoneV, int |-> NoneV, spd |-> NoneV, dir |-> NoneV,
     colors |-> NoneV, save |-> NoneV, power |-> NoneV]

StatusNone ==
    [update |-> NoneV, state |-> NoneV, man |-> NoneV, model |-> NoneV,
     ver |-> NoneV, mac |-> NoneV, push |-> NoneV, ntp |-> NoneV]

Messages ==
    { MsgControl([ControlNone EXCEPT
                    !.power = Some(1),
                    !.colors = Some(<< [r |-> 255, g |-> 0, b |-> 10] >>)]),
      MsgStatus([StatusNone EXCEPT !.push = Some(TRUE)]),
      MsgConfig([ip |-> Some(GenText(7)), nm |-> NoneV, gw |-> NoneV,
                 ports |-> << [port |-> 1, ts |-> 2, l |-> 3, ss |-> 4] >>]),
      MsgParsed(MkID("Control"), JObj(<< << K.brightness, JNum(128) >> >>)),
      MsgUnparsed(Custom(42), GenText(MAX_DATA_LENGTH + 1)) }

\* ------------------------------------------------------------------------
\* Specification Spec: a fresh connection over a transport whose sends all
\* succeed; calls with every payload, offset and message of the input sets
\* ------------------------------------------------------------------------

Next ==
    /\ nsent < MaxSent
    /\ \/ \E data \in Payloads : write(data, 0)
       \/ \E data \in Payloads, offset \in Offsets : write_offset(data, offset, 0)
       \/ \E msg \in Messages : write_message(msg, 0)
       \/ get_incoming

Spec == Init /\ [][Next]_vars

\* ------------------------------------------------------------------------
\* Specification SpecSeq: a fresh connection and long runs of calls, up to
\* MaxSeqSent datagrams (one pass of the counter and more), over a transport
\* that may fail at any of the first MaxFail sends of a call
\* ------------------------------------------------------------------------

SeqPayloads == { Pixel1, Gen(2000) }

SeqOffsets == {0, 30}

SeqMessages == { MsgParsed(MkID("Config"), JNull) }

FailAts == 0..MaxFail

NextSeq ==
    /\ nsent < MaxSeqSent
    /\ \/ \E data \in SeqPayloads, failAt \in FailAts : write(data, failAt)
       \/ \E data \in SeqPayloads, offset \in SeqOffsets, failAt \in FailAts :
             write_offset(data, offset, failAt)
       \/ \E msg \in SeqMessages, failAt \in FailAts : write_message(msg, failAt)
       \/ get_incoming

SpecSeq == Init /\ [][NextSeq]_vars

\* ------------------------------------------------------------------------
\* Specification SpecCodec: the codec functions of protocol/*.rs and
\* Packet::from_bytes applied to inputs drawn from the sets below; codec
\* records the last application.  The connection is not used.
\* ------------------------------------------------------------------------

conn_vars == << sequence_number, buffer, pixel_config, id, wire, call, nsent,
                receiver_packet, ctl_vars >>

\* every PixelConfig
PixelConfigs ==
    [data_type : {"Undefined", "RGB", "HSL", "RGBW", "Grayscale"},
     data_size : {"Undefined", "Pixel1Bits", "Pixel4Bits", "Pixel8Bits",
                  "Pixel16Bits", "Pixel24Bits", "Pixel32Bits"},
     customer_defined : BOOLEAN]

\* every ID
NamedIDs ==
    { MkID(t) : t \in {"Reserved", "Default", "Control", "Config", "Status",
                       "DMX", "Broadcast"} }

IDs == NamedIDs \cup { Custom(v) : v \in 0..255 }

\* the IDs of the header inputs: the named ones and Custom values at the
\* ends of the three custom ranges
HeaderIDs == NamedIDs \cup { Custom(v) : v \in {2, 42, 245, 247, 249, 252, 253} }

\* the packet types with version 1..4 and the timecode flag tc
PacketTypes(tc) ==
    [version : 1..4, timecode : {tc}, storage : BOOLEAN, reply : BOOLEAN,
     query : BOOLEAN, push : BOOLEAN]

\* the other header fields; offsets and timecodes stay below 2^31
HeaderFields ==
    { [seq |-> 0, pc |-> PixelConfigDefault, i |-> IDDefault,
       offset |-> 0, length |-> 0, t |-> 0],
      [seq |-> 15, pc |-> [data_type |-> "Undefined", data_size |-> "Pixel1Bits",
                           customer_defined |-> FALSE],
       i |-> MkID("Broadcast"), offset |-> 1440, length |-> 1440, t |-> 12345],
      [seq |-> 255, pc |-> [data_type |-> "RGBW", data_size |-> "Pixel32Bits",
                            customer_defined |-> TRUE],
       i |-> Custom(253), offset |-> 2147483647, length |-> 65535,
       t |-> 2147483647] }

Headers ==
    { [packet_type |-> pt, sequence_number |-> f.seq, pixel_config |-> f.pc,
       id |-> f.i, offset |-> f.offset, length |-> f.length,
       time_code |-> IF pt.timecode THEN [some |-> TRUE, value |-> f.t]
                     ELSE TimeCodeNone] :
         pt \in PacketTypes(FALSE) \cup PacketTypes(TRUE), f \in HeaderFields }
      \cup
    { [HeaderDefault EXCEPT !.sequence_number = 1, !.pixel_config = pc, !.id = i] :
         pc \in PixelConfigs, i \in HeaderIDs }

\* payloads of inbound datagrams, by name
Doc ==
    [
      \* packet.rs tests::test_json: a ConfigRoot with two ports, pretty-printed
      test_json |->
        << 123, 10, 32, 32, 32, 32, 34, 99, 111, 110, 102, 105, 103, 34, 58, 10,
           32, 32, 32, 32, 123, 10, 32, 32, 32, 32, 32, 32, 32, 32, 34, 103, 119,
           34, 58, 32, 34, 97, 46, 98, 46, 99, 46, 100, 34, 44, 10, 32, 32, 32,
           32, 32, 32, 32, 32, 34, 105, 112, 34, 58, 32, 34, 97, 46, 98, 46, 99,
           46, 100, 34, 44, 10, 32, 32, 32, 32, 32, 32, 32, 32, 34, 110, 109, 34,
           58, 32, 34, 97, 46, 98, 46, 99, 46, 100, 34, 44, 10, 32, 32, 32, 32,
           32, 32, 32, 32, 34, 112, 111, 114, 116, 115, 34, 58, 10, 32, 32, 32,
           32, 32, 32, 32, 32, 91, 10, 32, 32, 32, 32, 32, 32, 32, 32, 32, 32,
           32, 32, 123, 10, 32, 32, 32, 32, 32, 32, 32, 32, 32, 32, 32, 32, 32,
           32, 32, 32, 34, 108, 34, 58, 32, 51, 44, 10, 32, 32, 32, 32, 32, 32,
           32, 32, 32, 32, 32, 32, 32, 32, 32, 32, 34, 112, 111, 114, 116, 34,
           58, 32, 49, 44, 10, 32, 32, 32, 32, 32, 32, 32, 32, 32, 32, 32, 32,
           32, 32, 32, 32, 34, 115, 115, 34, 58, 32, 52, 44, 10, 32, 32, 32, 32,
           32, 32, 32, 32, 32, 32, 32, 32, 32, 32, 32, 32, 34, 116, 115, 34, 58,
           32, 50, 10, 32, 32, 32, 32, 32, 32, 32, 32, 32, 32, 32, 32, 125, 44,
           10, 32, 32, 32, 32, 32, 32, 32, 32, 32, 32, 32, 32, 123, 10, 32, 32,
           32, 32, 32, 32, 32, 32, 32, 32, 32, 32, 32, 32, 32, 32, 34, 108, 34,
           58, 32, 55, 44, 10, 32, 32, 32, 32, 32, 32, 32, 32, 32, 32, 32, 32,
           32, 32, 32, 32, 34, 112, 111, 114, 116, 34, 58, 32, 53, 44, 10, 32,
           32, 32, 32, 32, 32, 32, 32, 32, 32, 32, 32, 32, 32, 32, 32, 34, 115,
           115, 34, 58, 32, 56, 44, 10, 32, 32, 32, 32, 32, 32, 32, 32, 32, 32,
           32, 32, 32, 32, 32, 32, 34, 116, 115, 34, 58, 32, 54, 10, 32, 32, 32,
           32, 32, 32, 32, 32, 32, 32, 32, 32, 125, 10, 32, 32, 32, 32, 32, 32,
           32, 32, 93, 10, 32, 32, 32, 32, 125, 10, 125 >>,
      \* packet.rs tests::test_untyped
      hello |->
        << 123, 34, 104, 101, 108, 108, 111, 34, 58, 32, 34, 111, 107, 34, 125 >>,
      \* packet.rs tests::test_unparsed
      slick |->
        << 83, 76, 73, 67, 75, 68, 69, 78, 73, 83, 52, 48, 48, 48 >>,
      \* {"control":{}}: every field of Control is optional
      control_empty |->
        << 123, 34, 99, 111, 110, 116, 114, 111, 108, 34, 58, 123, 125, 125 >>,
      \* a ControlRoot with white space, an escape and an unknown key
      control_loose |->
        << 123, 32, 34, 120, 34, 58, 32, 91, 49, 44, 32, 50, 93, 44, 32, 34, 99,
           111, 110, 116, 114, 111, 108, 34, 58, 32, 123, 34, 102, 120, 34, 58,
           32, 34, 97, 92, 110, 34, 44, 32, 34, 112, 111, 119, 101, 114, 34, 58,
           32, 49, 44, 32, 34, 99, 111, 108, 111, 114, 115, 34, 58, 32, 91, 123,
           34, 114, 34, 58, 49, 44, 34, 103, 34, 58, 50, 44, 34, 98, 34, 58, 51,
           125, 93, 125, 32, 125 >>,
      \* a ControlRoot and its Control given as arrays
      control_seq |->
        << 91, 91, 110, 117, 108, 108, 44, 55, 44, 110, 117, 108, 108, 44, 110,
           117, 108, 108, 44, 110, 117, 108, 108, 44, 110, 117, 108, 108, 44,
           110, 117, 108, 108, 93, 93 >>,
      \* a StatusRoot
      status_push |->
        << 123, 34, 115, 116, 97, 116, 117, 115, 34, 58, 123, 34, 112, 117, 115,
           104, 34, 58, 116, 114, 117, 101, 44, 34, 109, 111, 100, 34, 58, 34,
           109, 34, 125, 125 >>,
      \* a ConfigRoot with the required field only
      config_ports |->
        << 123, 34, 99, 111, 110, 102, 105, 103, 34, 58, 123, 34, 112, 111, 114,
           116, 115, 34, 58, 91, 93, 125, 125 >>,
      \* JSON, not a ConfigRoot: ports is not an array
      config_bad_ports |->
        << 123, 34, 99, 111, 110, 102, 105, 103, 34, 58, 123, 34, 112, 111, 114,
           116, 115, 34, 58, 51, 125, 125 >>,
      \* JSON, not a ControlRoot: field fx twice
      control_dup |->
        << 123, 34, 99, 111, 110, 116, 114, 111, 108, 34, 58, 123, 34, 102, 120,
           34, 58, 34, 97, 34, 44, 34, 102, 120, 34, 58, 34, 98, 34, 125, 125 >>,
      \* JSON, not a ControlRoot: int is a string
      control_bad_int |->
        << 123, 34, 99, 111, 110, 116, 114, 111, 108, 34, 58, 123, 34, 105, 110,
           116, 34, 58, 34, 55, 34, 125, 125 >>,
      \* {}
      empty_obj |->
        << 123, 125 >>,
      \* null
      null |->
        << 110, 117, 108, 108 >>,
      \* a number between white space
      num |->
        << 32, 49, 50, 56, 10 >>,
      \* an array
      arr |->
        << 91, 49, 44, 32, 34, 97, 34, 44, 32, 102, 97, 108, 115, 101, 93 >>,
      \* text: JSON cut short
      truncated |->
        << 123, 34, 99, 111, 110, 102, 105, 103, 34, 58 >>,
      \* text: characters after the value
      trailing |->
        << 123, 34, 97, 34, 58, 49, 125, 32, 120 >>,
      \* text: trailing comma
      comma |->
        << 91, 49, 44, 93 >>,
      \* text: number with a leading zero
      leading_zero |->
        << 91, 48, 49, 93 >>,
      \* the empty payload: no JSON value, the empty text
      empty |->
        << >>,
      \* text with two- and three-byte UTF-8 characters
      e_acute |->
        << 104, 195, 169, 108, 108, 111, 32, 226, 130, 172 >>,
      \* not UTF-8
      ff |->
        << 255, 254, 253 >>,
      \* not UTF-8: a lead byte without its continuation
      lone_lead |->
        << 104, 195 >>,
      \* not UTF-8: overlong form
      overlong |->
        << 192, 128 >>,
      \* a JSON shape around a byte that is not UTF-8
      json_bad_utf8 |->
        << 123, 34, 97, 34, 58, 34, 255, 34, 125 >>,
      \* what write_message puts on the wire for the typed messages of Messages
      sent_control |->
        ToJson(ControlRootValue([ControlNone EXCEPT
                   !.power = Some(1),
                   !.colors = Some(<< [r |-> 255, g |-> 0, b |-> 10] >>)])),
      sent_status |->
        ToJson(StatusRootValue([StatusNone EXCEPT !.push = Some(TRUE)])),
      sent_config |->
        ToJson(ConfigRootValue([ip |-> Some(GenText(7)), nm |-> NoneV, gw |-> NoneV,
                   ports |-> << [port |-> 1, ts |-> 2, l |-> 3, ss |-> 4] >>])) ]

\* the payloads by what they are: JSON of the typed schema of an ID, JSON,
\* UTF-8 text that is not JSON, bytes that are not UTF-8
TypedDocs(tag) ==
    CASE tag = "Control" ->
           {Doc.control_empty, Doc.control_loose, Doc.control_seq, Doc.sent_control}
      [] tag = "Config" -> {Doc.test_json, Doc.config_ports, Doc.sent_config}
      [] tag = "Status" -> {Doc.status_push, Doc.sent_status}
      [] OTHER -> {}

JsonDocs ==
    TypedDocs("Control") \cup TypedDocs("Config") \cup TypedDocs("Status")
      \cup {Doc.hello, Doc.config_bad_ports, Doc.control_dup, Doc.control_bad_int,
            Doc.empty_obj, Doc.null, Doc.num, Doc.arr}

TextDocs ==
    {Doc.slick, Doc.truncated, Doc.trailing, Doc.comma, Doc.leading_zero,
     Doc.empty, Doc.e_acute}

BinaryDocs == {Doc.ff, Doc.lone_lead, Doc.overlong, Doc.json_bad_utf8}

PacketDocs == JsonDocs \cup TextDocs \cup BinaryDocs

\* an inbound datagram: header byte 0, ID byte, timecode when byte 0 says
\* so, payload
PacketBytes(b0, idb, payload) ==
    << b0, 1, 13, idb >> \o U32ToBe(0) \o U16ToBe(Len(payload) % U16)
      \o (IF BitSet(b0, TIMECODE) THEN U32ToBe(12345) ELSE << >>)
      \o payload

\* byte 0: version 1 with reply; no flag; timecode and reply; timecode;
\* reply and push
PacketByte0s == {68, 64, 84, 80, 69}

\* the ID bytes: Control, Config, Status, Default, Custom(42), DMX,
\* Broadcast, Reserved
PacketIDBytes == {246, 250, 251, 1, 42, 254, 255, 0}

\* the first n bytes, n = 0..MaxShort, of a reply with and without timecode
ShortInputs ==
    { SubSeq(PacketBytes(b0, 250, Doc.hello), 1, n) : b0 \in {68, 84}, n \in 0..MaxShort }

\* the last set: one-pixel packets whose sequence number, offset and length
\* field take values at the ends of their ranges, the length field mostly
\* not the size of the payload
PacketInputs ==
    { PacketBytes(b0, idb, d) :
         b0 \in PacketByte0s, idb \in PacketIDBytes, d \in PacketDocs }
      \cup ShortInputs
      \cup { << 65, seq, 13, 1 >> \o U32ToBe(offset) \o U16ToBe(length) \o Pixel1 :
                seq \in {0, 15, 16, 255},
                offset \in {0, 1440, 3999999, 2147483647},
                length \in {0, 3, 1440, 65535} }

\* the calls to make: a function and its argument
CodecInputs ==
    { [op |-> "ID::from", in |-> value] : value \in 0..255 }
      \cup { [op |-> "ID::into", in |-> i] : i \in IDs }
      \cup { [op |-> "PixelConfig::from", in |-> byte] : byte \in 0..255 }
      \cup { [op |-> "PixelConfig::into", in |-> pc] : pc \in PixelConfigs }
      \cup { [op |-> "Header", in |-> h] : h \in Headers }
      \cup { [op |-> "PacketType::from", in |-> byte] : byte \in 0..255 }
      \cup { [op |-> "PacketType::into", in |-> pt] :
                pt \in PacketTypes(FALSE) \cup PacketTypes(TRUE) }
      \cup { [op |-> "from_bytes", in |-> bytes] : bytes \in PacketInputs }
      \cup { [op |-> "Header::from",
               in |-> << b0, seq, pcb, idb >> \o U32ToBe(f.offset)
                        \o U16ToBe(f.length)
                        \o (IF tc /\ BitSet(b0, TIMECODE) THEN U32ToBe(f.t)
                            ELSE << >>)] :
                b0 \in {0, 22, 54, 65, 81, 97, 255},
                seq \in {0, 255},
                pcb \in {13, 255, 69, 40, 7},
                idb \in {0, 1, 2, 246, 249, 250, 251, 252, 254, 255},
                f \in {fl \in HeaderFields : fl.seq # 15},
                tc \in BOOLEAN }

\* a call is pending when its result is not yet recorded
Pending(op) == codec.op = op /\ "out" \notin DOMAIN codec

\* ID::from(value)
CallIDFrom ==
    /\ Pending("ID::from")
    /\ codec' = [op |-> codec.op, in |-> codec.in, out |-> IDFrom(codec.in)]
    /\ UNCHANGED conn_vars

\* id.into(), and the byte decoded again
CallIDInto ==
    /\ Pending("ID::into")
    /\ codec' = [op |-> codec.op, in |-> codec.in, out |-> IDInto(codec.in),
                 back |-> IDFrom(IDInto(codec.in))]
    /\ UNCHANGED conn_vars

\* PixelConfig::from(byte)
CallPixelConfigFrom ==
    /\ Pending("PixelConfig::from")
    /\ codec' = [op |-> codec.op, in |-> codec.in,
                 out |-> PixelConfigFrom(codec.in)]
    /\ UNCHANGED conn_vars

\* pixel_config.into(), and the byte decoded again
CallPixelConfigInto ==
    /\ Pending("PixelConfig::into")
    /\ codec' = [op |-> codec.op, in |-> codec.in,
                 out |-> PixelConfigInto(codec.in),
                 back |-> PixelConfigFrom(PixelConfigInto(codec.in))]
    /\ UNCHANGED conn_vars

\* PacketType::from(byte), and the result encoded again
CallPacketTypeFrom ==
    /\ Pending("PacketType::from")
    /\ codec' = [op |-> codec.op, in |-> codec.in,
                 out |-> PacketTypeFrom(codec.in),
                 back |-> PacketTypeInto(PacketTypeFrom(codec.in))]
    /\ UNCHANGED conn_vars

\* packet_type.into(), and the byte decoded again
CallPacketTypeInto ==
    /\ Pending("PacketType::into")
    /\ codec' = [op |-> codec.op, in |-> codec.in,
                 out |-> PacketTypeInto(codec.in),
                 back |-> PacketTypeFrom(PacketTypeInto(codec.in))]
    /\ UNCHANGED conn_vars

\* header.into() in the form its timecode flag asks for, and Header::from
\* of the bytes; sent is the datagram assemble_packet builds in the buffer
\* from the header and a one-pixel chunk
CallHeaderIntoFrom ==
    /\ Pending("Header")
    /\ LET h == codec.in
           bytes == IF h.packet_type.timecode THEN HeaderInto14(h)
                    ELSE HeaderInto10(h)
           ap == assemble_packet(buffer, h, Pixel1)
       IN  codec' = [op |-> codec.op, in |-> h, bytes |-> bytes,
                     out |-> HeaderFrom(bytes),
                     sent |-> SubSeq(ap.buffer, 1, ap.len)]
    /\ UNCHANGED conn_vars

\* Header::from(bytes), the result encoded again in the size of the input
\* (14 bytes only for an input of 14 bytes, whose timecode bit is set), and
\* the encoding decoded
CallHeaderFromInto ==
    /\ Pending("Header::from")
    /\ LET h == HeaderFrom(codec.in)
           bytes == IF Len(codec.in) = 14 THEN HeaderInto14(h)
                    ELSE HeaderInto10(h)
       IN  codec' = [op |-> codec.op, in |-> codec.in, out |-> h,
                     bytes |-> bytes, back |-> HeaderFrom(bytes)]
    /\ UNCHANGED conn_vars

\* Packet::from_bytes(bytes)
CallFromBytes ==
    /\ Pending("from_bytes")
    /\ codec' = [op |-> codec.op, in |-> codec.in, out |-> from_bytes(codec.in)]
    /\ UNCHANGED conn_vars

\* a fresh connection and one call to make
InitCodec ==
    /\ try_new(PixelConfigDefault, IDDefault)
    /\ NoController
    /\ codec \in CodecInputs

NextCodec ==
    \/ CallIDFrom
    \/ CallIDInto
    \/ CallPixelConfigFrom
    \/ CallPixelConfigInto
    \/ CallPacketTypeFrom
    \/ CallPacketTypeInto
    \/ CallHeaderIntoFrom
    \/ CallHeaderFromInto
    \/ CallFromBytes

SpecCodec == InitCodec /\ [][NextCodec]_vars

\* ------------------------------------------------------------------------
\* Specification SpecCfg: connections constructed with other PixelConfigs
\* and IDs than the defaults, over a transport whose sends all succeed
\* ------------------------------------------------------------------------

CfgPixelConfigs ==
    { PixelConfigDefault,
      [data_type |-> "RGBW", data_size |-> "Pixel32Bits", customer_defined |-> FALSE],
      [data_type |-> "Grayscale", data_size |-> "Pixel8Bits", customer_defined |-> TRUE] }

CfgIDs == { IDDefault, MkID("Config"), Custom(42) }

CfgPayloads == { Pixel1, Gen(MAX_DATA_LENGTH + 1) }

InitCfg ==
    /\ \E pc \in CfgPixelConfigs, i \in CfgIDs : try_new(pc, i)
    /\ codec = CodecIdle
    /\ NoController

NextCfg ==
    /\ nsent < MaxSent
    /\ \/ \E data \in CfgPayloads : write(data, 0)
       \/ \E data \in CfgPayloads, offset \in SeqOffsets : write_offset(data, offset, 0)
       \/ \E msg \in SeqMessages : write_message(msg, 0)
       \/ get_incoming

SpecCfg == InitCfg /\ [][NextCfg]_vars

\* ------------------------------------------------------------------------
\* Controller (src/src/controller.rs): the socket, the map of Senders and
\* the thread new_with_socket spawns.  A datagram in the socket is a record
\* of its source address, its bytes and its arrival number n; arrivals keeps
\* every datagram that arrived, with reg telling whether its source had a
\* Sender in the map when it arrived.  Per IP address, channels holds the
\* channels the calls of connect made, in the order of the calls: of each
\* its queue, the arrival numbers of the queued packets (serials) and
\* whether the Receiver handed to the caller lives.  connections maps an IP
\* address to the number of the channel whose Sender it holds.
\* ------------------------------------------------------------------------

\* the variables of DDPConnection and of the codec calls, which the
\* Controller leaves alone
ddp_vars == << sequence_number, buffer, pixel_config, id, wire, call, nsent,
               receiver_packet, codec >>

\* the IP addresses and the ports of the sources
Addrs == {"10.0.0.1", "10.0.0.2"}

Ports == {4048, 5000}

\* SocketAddr: an IP address and a port
SocketAddrs == [ip : Addrs, port : Ports]

\* SocketAddr::ip
ip(sa) == sa.ip

\* the datagrams that arrive: a pixel packet and a status reply
CtlDatagrams == { PacketBytes(65, 1, Pixel1), PacketBytes(68, 251, Doc.status_push) }

\* Packet::from_bytes on the datagrams that arrive
from_bytes_of == [bytes \in CtlDatagrams |-> from_bytes(bytes).packet]

\* an insert that leaves the entry of a key that is present as it is
insert_keep(m, k, v) ==
    [x \in DOMAIN m \cup {k} |-> IF x \in DOMAIN m THEN m[x] ELSE v]

\* DashMap::insert: the value of a key that is present is replaced
insert(m, k, v) == [x \in DOMAIN m \cup {k} |-> IF x = k THEN v ELSE m[x]]

\* Controller::new_with_socket: an empty map, and the thread is spawned
new_with_socket ==
    /\ connections = EmptyMap
    /\ channels = [a \in Addrs |-> << >>]
    /\ socket = << >>
    /\ dispatcher = "recv"
    /\ arrivals = << >>

\* the address whose entry the thread holds while it waits in remove: the
\* source of the one datagram the thread took
held == ip(arrivals[1].from)

\* Controller::connect(addr, ..): a new channel, its Sender goes into the
\* map under the IP address of addr, its Receiver to the caller.  The insert
\* waits for the lock of the entry while the thread holds it
connect(addr) ==
    /\ Len(channels[ip(addr)]) < MaxConnect
    /\ ~(dispatcher = "blocked" /\ held = ip(addr))
    /\ channels' = [channels EXCEPT ![ip(addr)] =
                       Append(@, [open |-> TRUE, queue |-> << >>,
                                  serials |-> << >>])]
    /\ connections' = insert(connections, ip(addr), Len(channels[ip(addr)]) + 1)
    /\ UNCHANGED << socket, dispatcher, arrivals, ddp_vars >>

\* the caller drops the Receiver that the g-th connect to addr returned
drop_receiver(addr, g) ==
    /\ g \in 1..Len(channels[addr])
    /\ channels[addr][g].open
    /\ channels' = [channels EXCEPT ![addr][g].open = FALSE]
    /\ UNCHANGED << connections, socket, dispatcher, arrivals, ddp_vars >>

\* the network delivers a datagram from addr to the Controller's socket
Arrive(addr, bytes) ==
    /\ Len(arrivals) < MaxArrive
    /\ socket' = Append(socket, [from |-> addr, bytes |-> bytes,
                                 n |-> Len(arrivals) + 1])
    /\ arrivals' = Append(arrivals, [from |-> addr, bytes |-> bytes,
                                     reg |-> ip(addr) \in DOMAIN connections])
    /\ UNCHANGED << connections, channels, dispatcher, ddp_vars >>

\* Controller::recieve_filter on the datagram recv_from returned
recieve_filter(d, conn) ==
    IF ip(d.from) \in DOMAIN conn THEN OkRet(d) ELSE ErrRet("UnknownClient")

\* the thread of new_with_socket, from recv_from to its end: the closure
\* holds one call of recieve_filter and no loop, so the thread ends after
\* the first datagram whatever became of it.  When send fails (the Receiver
\* was dropped) the thread calls remove on the map while ch, the reference
\* get returned, still holds the lock of the entry: remove waits for that
\* lock and never returns
dispatch_thread ==
    /\ dispatcher = "recv"
    /\ socket # << >>
    /\ LET d == Head(socket)
           r == recieve_filter(d, connections)
           packet == from_bytes_of[d.bytes]
           key == ip(d.from)
       IN  /\ socket' = Tail(socket)
           /\ IF r.ok /\ key \in DOMAIN connections
              THEN LET ch == channels[key][connections[key]]
                   IN  IF ch.open
                       THEN /\ channels' = [channels EXCEPT ![key][connections[key]] =
                                               [ch EXCEPT !.queue = Append(@, packet),
                                                          !.serials = Append(@, d.n)]]
                            /\ dispatcher' = "exited"
                       ELSE /\ dispatcher' = "blocked"
                            /\ UNCHANGED channels
              ELSE /\ dispatcher' = "exited"
                   /\ UNCHANGED channels
    /\ UNCHANGED << connections, arrivals, ddp_vars >>

\* ------------------------------------------------------------------------
\* Connection (src/src/controller.rs), the sender Controller::connect
\* returns.  Its fields pixel_config, id, sequence_number and buffer are
\* held in the variables of the same names.
\* ------------------------------------------------------------------------

\* Connection::assemble_packet: the header is always written in 10 bytes
Connection_assemble_packet(buf, header, data) ==
    LET hb == HeaderInto10(header)
    IN  [buffer |-> [i \in 1..BUFFER_SIZE |->
                        IF i <= 10 THEN hb[i]
                        ELSE IF i <= 10 + Len(data) THEN data[i - 10]
                        ELSE buf[i]],
         len |-> 10 + Len(data)]

\* the while loop of Connection::slice_send: offset is a local that starts
\* at 0; of the header only the push flag and the sequence number are set
\* in the loop, its length and offset stay as write left them
RECURSIVE Connection_slice_loop(_, _, _)

Connection_slice_loop(st, data, failAt) ==
    IF ~more_chunks(st.offset, Len(data))
    THEN [st EXCEPT !.ret = OkRet(st.sent)]
    ELSE
      LET iter == st.iter + 1
          pt == IF iter = st.num_iterations
                THEN push(st.header.packet_type, TRUE)
                ELSE st.header.packet_type
          h == [st.header EXCEPT !.packet_type = pt,
                                 !.sequence_number = st.sequence_number]
          chunk == SubSeq(data, st.offset + 1, chunk_end(st.offset, Len(data)))
          ap == Connection_assemble_packet(st.buffer, h, chunk)
          dgram == SubSeq(ap.buffer, 1, ap.len)
      IN  IF failAt = st.handed + 1
          THEN [st EXCEPT !.iter = iter, !.header = h, !.buffer = ap.buffer,
                          !.handed = st.handed + 1, !.failed = dgram,
                          !.ret = ErrRet("Disconnect")]
          ELSE Connection_slice_loop(
                 [st EXCEPT !.iter = iter,
                            !.header = h,
                            !.buffer = ap.buffer,
                            !.handed = st.handed + 1,
                            !.out = Append(st.out, dgram),
                            !.sent = st.sent + send_to(dgram),
                            !.sequence_number = NextSequenceNumber(st.sequence_number),
                            !.offset = st.offset + MAX_DATA_LENGTH],
                 data, failAt)

\* Connection::slice_send
Connection_slice_send(seq, buf, header, data, failAt) ==
    Connection_slice_loop([header |-> header,
                           offset |-> 0,
                           sent |-> 0,
                           num_iterations |-> (Len(data) + MAX_DATA_LENGTH - 1) \div MAX_DATA_LENGTH,
                           iter |-> 0,
                           sequence_number |-> seq,
                           buffer |-> buf,
                           out |-> << >>,
                           handed |-> 0,
                           failed |-> << >>,
                           ret |-> OkRet(0)],
                          data, failAt)

\* Connection::write: the header gets the length of the whole of data
Connection_write(data, failAt) ==
    Finish("Connection::write", data, 0,
           Connection_slice_send(sequence_number, buffer,
               [HeaderDefault EXCEPT
                  !.packet_type = push(HeaderDefault.packet_type, FALSE),
                  !.pixel_config = pixel_config,
                  !.id = id,
                  !.length = Len(data) % U16],
               data, failAt))

\* ------------------------------------------------------------------------
\* Specification SpecPair: writes of a DDPConnection and of a Connection,
\* each from the fields the call before left, so that a write of either
\* struct starts from every counter, pixel_config and id the other can
\* start from
\* ------------------------------------------------------------------------

PairPayloads == { << >>, Pixel1, Gen(MAX_DATA_LENGTH), Gen(MAX_DATA_LENGTH + 1),
                  Gen(2 * MAX_DATA_LENGTH + 1) }

NextPair ==
    /\ nsent < MaxSent
    /\ \/ \E data \in PairPayloads : write(data, 0)
       \/ \E data \in PairPayloads, failAt \in FailAts : Connection_write(data, failAt)

SpecPair == InitCfg /\ [][NextPair]_vars

\* ------------------------------------------------------------------------
\* Specification SpecCtl: a Controller, calls of connect, datagrams that
\* arrive from connected and from other addresses, and the thread, which
\* takes a datagram whenever it waits in recv_from and one is in the socket
\* ------------------------------------------------------------------------

InitCtl ==
    /\ try_new(PixelConfigDefault, IDDefault)
    /\ codec = CodecIdle
    /\ new_with_socket

NextCtl ==
    \/ \E addr \in SocketAddrs : connect(addr)
    \/ \E addr \in Addrs, g \in 1..MaxConnect : drop_receiver(addr, g)
    \/ \E addr \in SocketAddrs, bytes \in CtlDatagrams : Arrive(addr, bytes)
    \/ dispatch_thread

SpecCtl == InitCtl /\ [][NextCtl]_vars /\ WF_vars(dispatch_thread)

\* ------------------------------------------------------------------------
\* Reading the transmitted datagrams (10-byte header, the connection never
\* sets the timecode flag)
\* ------------------------------------------------------------------------

SeqOf(d) == d[2]
PushOf(d) == d[1] % 2 = 1
OffsetOf(d) == U32FromBe(SubSeq(d, 5, 8))
LengthOf(d) == U16FromBe(SubSeq(d, 9, 10))
PayloadOf(d) == SubSeq(d, 11, Len(d))

CeilDiv(a, b) == (a + b - 1) \div b

RECURSIVE Concat(_)
Concat(ss) == IF ss = << >> THEN << >> ELSE Head(ss) \o Concat(Tail(ss))

Payloads_of(w) == [i \in 1..Len(w) |-> PayloadOf(w[i])]

\* number of the i-th datagram of the last call among all datagrams
\* transmitted since construction
GlobalIndex(i) == nsent - Len(wire) + i

IsCall(ops) == call.op \in ops /\ call.ret.ok

\* ------------------------------------------------------------------------
\* Claims
\* ------------------------------------------------------------------------

\* C1: after any sequence of write, write_offset and write_message calls the
\* sequence-number byte (header byte 1) of every transmitted datagram is in
\* 1..15.
C1_SequenceByteInRange ==
    \A i \in 1..Len(wire) : SeqOf(wire[i]) \in 1..15

\* C2: the k-th datagram transmitted on a fresh connection carries sequence
\* number ((k-1) mod 15) + 1; the 16th carries 1.
C2_KthDatagramSequence ==
    \A i \in 1..Len(wire) : SeqOf(wire[i]) = ((GlobalIndex(i) - 1) % 15) + 1

\* C3: write(data) with Len(data) = L > 0 transmits exactly ceil(L/1440)
\* datagrams; the i-th (from 0) has length min(1440, L - 1440 i) and offset
\* 1440 i.
C3_WriteChunks ==
    (IsCall({"write"}) /\ Len(call.data) > 0) =>
        LET L == Len(call.data) IN
        /\ Len(wire) = CeilDiv(L, 1440)
        /\ \A i \in 1..Len(wire) :
              /\ LengthOf(wire[i]) = Min(1440, L - 1440 * (i - 1))
              /\ OffsetOf(wire[i]) = 1440 * (i - 1)

\* a 2000-byte write on a used connection has sent (1440, 0) and (560, 1440)
C3_Witness ==
    /\ IsCall({"write"}) /\ Len(call.data) = 2000 /\ call.seq0 > 1
    /\ Len(wire) = 2
    /\ LengthOf(wire[1]) = 1440 /\ OffsetOf(wire[1]) = 0
    /\ LengthOf(wire[2]) = 560 /\ OffsetOf(wire[2]) = 1440

\* C4: in every call that transmits at least one datagram the push flag is
\* set on the last datagram of the call and clear on every earlier one.
C4_PushOnLastOnly ==
    (IsCall({"write", "write_offset", "write_message"}) /\ Len(wire) > 0) =>
        /\ PushOf(wire[Len(wire)])
        /\ \A i \in 1..(Len(wire) - 1) : ~PushOf(wire[i])

\* C5: each datagram of write(data) carries at most 1440 payload bytes and
\* the payloads, concatenated in transmission order, are data.
C5_WritePayload ==
    IsCall({"write"}) =>
        /\ \A i \in 1..Len(wire) : Len(PayloadOf(wire[i])) <= 1440
        /\ Concat(Payloads_of(wire)) = call.data

\* a three-datagram write on a used connection
C5_Witness ==
    /\ IsCall({"write"}) /\ Len(call.data) > 2 * MAX_DATA_LENGTH /\ call.seq0 > 1
    /\ Len(wire) = 3
    /\ Concat(Payloads_of(wire)) = call.data

\* C6: write_offset(data, b) with non-empty data transmits the chunks of data
\* with header offsets b + 1440 i, i = 0, 1, ...; in particular the first
\* datagram is transmitted and carries offset b.
C6_WriteOffsetOffsets ==
    (IsCall({"write_offset"}) /\ Len(call.data) > 0) =>
        /\ Len(wire) = CeilDiv(Len(call.data), 1440)
        /\ \A i \in 1..Len(wire) : OffsetOf(wire[i]) = call.offset + 1440 * (i - 1)

\* C7: write_offset(data, b) transmits what write(data) transmits from the
\* same sequence counter (same number of datagrams, payloads, lengths, push
\* flags, sequence numbers, return value) except that every offset is larger
\* by b.
C7_WriteOffsetAsWrite ==
    IsCall({"write_offset"}) =>
        LET w == slice_send(call.seq0, buffer, write_header(pixel_config, id),
                            call.data, 0)
        IN  /\ Len(wire) = Len(w.out)
            /\ call.ret = w.ret
            /\ \A i \in 1..Min(Len(wire), Len(w.out)) :
                  /\ PayloadOf(wire[i]) = PayloadOf(w.out[i])
                  /\ LengthOf(wire[i]) = LengthOf(w.out[i])
                  /\ PushOf(wire[i]) = PushOf(w.out[i])
                  /\ SeqOf(wire[i]) = SeqOf(w.out[i])
                  /\ OffsetOf(wire[i]) = OffsetOf(w.out[i]) + call.offset

\* C8: on a fresh connection with the default PixelConfig and ID, write of a
\* 9-byte payload transmits one 19-byte datagram: 41 01 0D 01 00 00 00 00 00
\* 09 (hex) and then the payload.
C8_FirstWriteBytes ==
    (IsCall({"write"}) /\ Len(call.data) = 9 /\ GlobalIndex(1) = 1) =>
        wire = << << 65, 1, 13, 1, 0, 0, 0, 0, 0, 9 >> \o call.data >>

\* the first write of the three pixels of the doc example has been sent
C8_Witness ==
    /\ IsCall({"write"}) /\ call.data = Pixels3 /\ nsent = 1
    /\ Len(wire) = 1 /\ Len(wire[1]) = 19

\* b follows a as a sequence number: the next integer, or 1 when the counter
\* wraps at the top of its range
Consecutive(a, b) == b = a + 1 \/ (a >= 15 /\ b = 1)

\* C9: the counter is shared by the three write operations and persists
\* across calls: the first datagram of a call carries the counter the call
\* found, every further datagram the following number, the counter is left
\* one step past the last transmitted datagram (unchanged when none was
\* transmitted), and so the first datagrams of a fresh connection carry
\* 1, 2, 3, 4, 5, ... whatever calls transmit them.
C9_SharedCounter ==
    /\ \A i \in 1..Len(wire) : GlobalIndex(i) <= 15 => SeqOf(wire[i]) = GlobalIndex(i)
    /\ \A i \in 1..(Len(wire) - 1) : Consecutive(SeqOf(wire[i]), SeqOf(wire[i + 1]))
    /\ Len(wire) > 0 => /\ SeqOf(wire[1]) = call.seq0
                        /\ Consecutive(SeqOf(wire[Len(wire)]), sequence_number)
    /\ Len(wire) = 0 => sequence_number = call.seq0

\* the fifth datagram, sent by a write_message after datagrams of other
\* calls, carries 5
C9_Witness ==
    /\ call.op = "write_message" /\ Len(wire) = 1
    /\ GlobalIndex(1) = 5 /\ SeqOf(wire[1]) = 5 /\ sequence_number = 6

\* C10: when every send succeeds, write(data) returns L + 10 * ceil(L/1440),
\* the header and payload bytes of all its datagrams.
C10_WriteReturn ==
    IsCall({"write"}) =>
        call.ret.val = Len(call.data) + 10 * CeilDiv(Len(call.data), 1440)

\* a two-datagram write has returned 2020
C10_Witness ==
    /\ IsCall({"write"}) /\ Len(call.data) = 2000 /\ Len(wire) = 2
    /\ call.ret.val = 2020


\* C11: write of a zero-length payload transmits no datagram, returns Ok(0)
\* and leaves the sequence counter as it found it; the first datagram of the
\* next write that transmits carries the number the empty write found.
C11_EmptyWrite ==
    [][ /\ (call'.op = "write" /\ Len(call'.data) = 0) =>
              /\ wire' = << >>
              /\ call'.ret = OkRet(0)
              /\ sequence_number' = sequence_number
        /\ (call.op = "write" /\ Len(call.data) = 0
              /\ call'.op = "write" /\ Len(wire') > 0) =>
              SeqOf(wire'[1]) = call.seq0 ]_vars

\* an empty write on a connection that has already sent one datagram
C11_Witness ==
    /\ call.op = "write" /\ Len(call.data) = 0 /\ call.ret = OkRet(0)
    /\ nsent = 1 /\ call.seq0 = 2 /\ sequence_number = 2 /\ wire = << >>

\* C12: when the transport refuses chunk k (from 0) of a write, the call
\* returns the transport error at once: chunks 0..k-1 have been transmitted
\* once each, in order, chunk k has been handed to the transport once and is
\* not transmitted, and no later chunk is handed to the transport.
C12_FailedChunk ==
    (call.op = "write" /\ call.failed # << >>) =>
        LET k == OffsetOf(call.failed) \div 1440 IN
        /\ call.ret = ErrRet("Disconnect")
        /\ Len(wire) = k
        /\ \A i \in 1..Len(wire) :
              PayloadOf(wire[i]) =
                  SubSeq(call.data, 1440 * (i - 1) + 1, Min(1440 * i, Len(call.data)))
        /\ call.handed = k + 1
        /\ PayloadOf(call.failed) =
               SubSeq(call.data, 1440 * k + 1, Min(1440 * (k + 1), Len(call.data)))

\* the second chunk of a 2000-byte write was refused after the first was sent
C12_Witness ==
    /\ call.op = "write" /\ Len(call.data) = 2000
    /\ ~call.ret.ok /\ call.failed # << >> /\ OffsetOf(call.failed) = 1440 /\ Len(wire) = 1 /\ call.handed = 2
    /\ Len(PayloadOf(call.failed)) = 560


\* the codec function op has been applied to codec.in
Applied(op) == codec.op = op /\ "out" \in DOMAIN codec

\* C13: for every Header with version 1..4, any flags, sequence number,
\* PixelConfig, ID (Custom values in the custom range), offset and length,
\* decoding the 10-byte encoding (timecode flag clear) and decoding the
\* 14-byte encoding (timecode flag set, time_code = Some(t)) return an equal
\* Header.
C13_HeaderRoundTrip ==
    Applied("Header") => codec.out = codec.in

\* C14: ID decoding is total and single-valued: 0 is Reserved, 1 Default,
\* 250 Config, 251 Status, 254 DMX, 255 Broadcast, exactly one byte (246) is
\* Control and every other byte b is Custom(b); decoding the encoding of a
\* named ID gives the ID back.
C14_IDDecode ==
    /\ Applied("ID::from") =>
          /\ codec.in = 0 => codec.out = MkID("Reserved")
          /\ codec.in = 1 => codec.out = MkID("Default")
          /\ codec.in = 250 => codec.out = MkID("Config")
          /\ codec.in = 251 => codec.out = MkID("Status")
          /\ codec.in = 254 => codec.out = MkID("DMX")
          /\ codec.in = 255 => codec.out = MkID("Broadcast")
          /\ codec.out = MkID("Control") <=> codec.in = 246
          /\ codec.in \notin {0, 1, 246, 250, 251, 254, 255} =>
                codec.out = Custom(codec.in)
    /\ (Applied("ID::into") /\ codec.in.tag # "Custom") => codec.back = codec.in

\* byte 246 has been decoded to Control
C14_Witness ==
    Applied("ID::from") /\ codec.in = 246 /\ codec.out = MkID("Control")

\* C15: encoding Custom(v) with v one of 0, 1, 246, 250, 251, 254, 255 gives
\* the byte of Default (1); the encoding of a Custom ID is never the byte of
\* Reserved, Control, Config, Status, DMX or Broadcast; for every other v the
\* byte is v.
C15_CustomEncode ==
    (Applied("ID::into") /\ codec.in.tag = "Custom") =>
        /\ codec.in.value \in {0, 1, 246, 250, 251, 254, 255} => codec.out = 1
        /\ codec.out \notin {0, 246, 250, 251, 254, 255}
        /\ codec.in.value \notin {0, 1, 246, 250, 251, 254, 255} =>
              codec.out = codec.in.value

\* Custom(246) has been encoded as 1
C15_Witness ==
    Applied("ID::into") /\ codec.in = Custom(246) /\ codec.out = 1

\* C16: every byte decodes to a PixelConfig: bit 7 is customer_defined, bits
\* 5..3 the data type (5, 6, 7 are Undefined), bits 2..0 the data size (7 is
\* Undefined); decoding the encoding of any PixelConfig gives it back; the
\* default PixelConfig encodes to 0x0D.
C16_PixelConfigCodec ==
    /\ Applied("PixelConfig::from") =>
          /\ codec.out.customer_defined <=> codec.in >= 128
          /\ codec.out.data_type =
                << "Undefined", "RGB", "HSL", "RGBW", "Grayscale",
                   "Undefined", "Undefined", "Undefined" >>[((codec.in \div 8) % 8) + 1]
          /\ codec.out.data_size =
                << "Undefined", "Pixel1Bits", "Pixel4Bits", "Pixel8Bits",
                   "Pixel16Bits", "Pixel24Bits", "Pixel32Bits",
                   "Undefined" >>[(codec.in % 8) + 1]
    /\ Applied("PixelConfig::into") =>
          /\ codec.back = codec.in
          /\ codec.in = PixelConfigDefault => codec.out = 13

\* the default PixelConfig has been encoded to 0x0D and decoded back
C16_Witness ==
    /\ Applied("PixelConfig::into") /\ codec.in = PixelConfigDefault
    /\ codec.out = 13 /\ codec.back = PixelConfigDefault

\* the header size, the reply flag, the ID byte and the payload of an
\* inbound datagram of at least 10 bytes, read off its bytes
InHeaderSize(b) == IF (b[1] \div 16) % 2 = 1 THEN 14 ELSE 10
InReply(b) == (b[1] \div 4) % 2 = 1
InIDByte(b) == b[4]
InPayload(b) == SubSeq(b, InHeaderSize(b) + 1, Len(b))

\* from_bytes has been applied to a datagram that holds its whole header
Decoded ==
    /\ Applied("from_bytes") /\ Len(codec.in) >= 10
    /\ Len(codec.in) >= InHeaderSize(codec.in)

\* the typed variant an ID byte stands for
TypedTag(idb) ==
    CASE idb = 246 -> "Control" [] idb = 250 -> "Config" [] idb = 251 -> "Status"

\* C17: for a reply packet whose ID is Control, Config or Status exactly one
\* of four outcomes occurs, in this order of priority: a payload that is JSON
\* of the ID's typed schema gives the typed message of that ID; any other
\* valid JSON gives an untyped value tagged with the header ID; any other
\* valid UTF-8 gives unparsed text tagged with the header ID; anything else
\* gives no parsed message.
C17_FallbackChain ==
    (Decoded /\ InReply(codec.in) /\ InIDByte(codec.in) \in {246, 250, 251}) =>
        LET d == InPayload(codec.in)
            tag == TypedTag(InIDByte(codec.in))
            p == codec.out.packet.parsed
        IN  /\ ~codec.out.panic
            /\ d \in TypedDocs(tag) => (p.some /\ p.v.variant = tag)
            /\ d \in JsonDocs \ TypedDocs(tag) =>
                  (p.some /\ p.v.variant = "Parsed" /\ p.v.id = MkID(tag))
            /\ d \in TextDocs => (p.some /\ p.v = MsgUnparsed(MkID(tag), d))
            /\ d \in BinaryDocs => ~p.some
            /\ \/ ~p.some
               \/ p.v.variant \in {tag, "Parsed", "Unparsed"}

\* the datagram of tests::test_json has been decoded to the typed Config
\* with gateway "a.b.c.d" and two ports
C17_Witness ==
    /\ Decoded /\ codec.in = PacketBytes(68, 250, Doc.test_json)
    /\ codec.out.packet.parsed.some
    /\ codec.out.packet.parsed.v.variant = "Config"
    /\ codec.out.packet.parsed.v.body.gw = Some(<< 97, 46, 98, 46, 99, 46, 100 >>)
    /\ Len(codec.out.packet.parsed.v.body.ports) = 2

\* C18 as stated: for a reply packet with ID Default, Custom, DMX, Broadcast
\* or Reserved a payload that is valid JSON decodes to an untyped value
\* tagged with the header ID, and a payload that is valid UTF-8 but not JSON
\* decodes to unparsed text tagged with the header ID.
C18_FallbackAnyID ==
    (Decoded /\ InReply(codec.in) /\ InIDByte(codec.in) \notin {246, 250, 251}) =>
        LET d == InPayload(codec.in)
            i == IDFrom(InIDByte(codec.in))
            p == codec.out.packet.parsed
        IN  /\ d \in JsonDocs => (p.some /\ p.v.variant = "Parsed" /\ p.v.id = i)
            /\ d \in TextDocs => (p.some /\ p.v = MsgUnparsed(i, d))

\* C18 amended: the untyped and text stages are tried only for the IDs
\* Control, Config and Status; a reply packet with any other header ID
\* (Default, Custom, DMX, Broadcast, Reserved) has no parsed message,
\* whatever its payload, and keeps its payload as data.
C18_OtherIDsUnparsed ==
    (Decoded /\ InReply(codec.in) /\ InIDByte(codec.in) \notin {246, 250, 251}) =>
        /\ ~codec.out.panic
        /\ ~codec.out.packet.parsed.some
        /\ codec.out.packet.data = InPayload(codec.in)

\* a reply with ID Custom(42) and the JSON payload of tests::test_untyped has
\* been decoded without a parsed message
C18_Witness ==
    /\ Decoded /\ codec.in = PacketBytes(68, 42, Doc.hello)
    /\ codec.out.packet.header.id = Custom(42)
    /\ ~codec.out.packet.parsed.some

\* C19: for every input that holds its whole header the data of the decoded
\* Packet is the input after the header (after byte 10, after byte 14 when
\* the timecode flag is set), whatever the reply flag and the outcome of the
\* fallback chain.
C19_DataRetained ==
    Decoded => /\ ~codec.out.panic
               /\ codec.out.packet.data = InPayload(codec.in)

\* a reply with timecode whose payload is not UTF-8: no parsed message, and
\* the data are the bytes after the 14-byte header
C19_Witness ==
    /\ Decoded /\ codec.in = PacketBytes(84, 250, Doc.ff)
    /\ ~codec.out.packet.parsed.some
    /\ codec.out.packet.data = Doc.ff
    /\ codec.out.packet.header.time_code = [some |-> TRUE, value |-> 12345]

\* C20: from_bytes returns a Packet for every byte sequence of every length,
\* the empty one included, and never reads out of bounds; an input shorter
\* than 10 bytes, or shorter than 14 bytes with the timecode bit (0x10 of
\* byte 0) set, gives the default Packet: default header, no data, no parsed
\* message.
C20_DecodeTotal ==
    Applied("from_bytes") =>
        /\ ~codec.out.panic
        /\ (\/ Len(codec.in) < 10
            \/ (Len(codec.in) < 14 /\ (codec.in[1] \div 16) % 2 = 1)) =>
              /\ codec.out.packet.header = HeaderDefault
              /\ codec.out.packet.data = << >>
              /\ ~codec.out.packet.parsed.some

\* a 12-byte input with the timecode bit set has given the default Packet
C20_Witness ==
    /\ Applied("from_bytes") /\ Len(codec.in) = 12
    /\ (codec.in[1] \div 16) % 2 = 1
    /\ ~codec.out.panic
    /\ codec.out.packet.header = HeaderDefault
    /\ codec.out.packet.data = << >>

\* C21: get_incoming returns at once; on a connection with no inbound packet
\* queued - a freshly constructed one included - it returns NothingToReceive
\* and leaves the queue alone; with packets queued it returns the oldest one
\* and removes it from the queue.
C21_GetIncoming ==
    [][call'.op = "get_incoming" =>
         IF receiver_packet.queue = << >>
         THEN /\ call'.ret = ErrRet("NothingToReceive")
              /\ UNCHANGED receiver_packet
         ELSE /\ call'.ret = OkRet(Head(receiver_packet.queue))
              /\ receiver_packet'.queue = Tail(receiver_packet.queue)]_vars

\* the ID byte a message is to travel under
MessageIDByte(msg) ==
    CASE msg.variant = "Control" -> 246
      [] msg.variant = "Status" -> 251
      [] msg.variant = "Config" -> 250
      [] msg.variant \in {"Parsed", "Unparsed"} -> IDInto(msg.id)

\* C22: write_message(msg) transmits the serialized bytes of msg as payload,
\* in chunks of 1440 bytes like pixel data, and every datagram it emits
\* carries in header byte 3 the ID of the message (Control, Config, Status
\* for the typed variants, the carried ID for Parsed and Unparsed), not the
\* ID stored in the connection.
C22_MessageID ==
    [][\A msg \in Messages :
          (call'.op = "write_message" /\ write_message(msg, 0)) =>
             LET bytes == MessageTryInto(msg).val
             IN  /\ Len(wire') = CeilDiv(Len(bytes), MAX_DATA_LENGTH)
                 /\ Concat(Payloads_of(wire')) = bytes
                 /\ \A i \in 1..Len(wire') :
                       /\ wire'[i][4] = MessageIDByte(msg)
                       /\ Len(PayloadOf(wire'[i])) =
                            Min(MAX_DATA_LENGTH,
                                Len(bytes) - MAX_DATA_LENGTH * (i - 1))]_vars

\* an unparsed text message with ID Custom(42), longer than one chunk, was
\* sent in two datagrams on a connection whose stored ID is Default
C22_Witness ==
    /\ call.op = "write_message"
    /\ id = IDDefault
    /\ Len(wire) = 2
    /\ wire[1][4] = 42
    /\ wire[2][4] = 42

\* C23: every datagram emitted by write and write_offset carries the stored
\* pixel_config of the connection in header byte 2 and its stored id in
\* header byte 3, and no operation (write, write_offset, write_message,
\* get_incoming) changes the stored pixel_config or id.
C23_StoredConfig ==
    [][/\ pixel_config' = pixel_config
       /\ id' = id
       /\ call'.op \in {"write", "write_offset"} =>
             \A i \in 1..Len(wire') :
                /\ wire'[i][3] = PixelConfigInto(pixel_config)
                /\ wire'[i][4] = IDInto(id)]_vars

\* a connection made with RGBW/32 bits and ID Config wrote two datagrams
\* after a message and a get_incoming call
C23_Witness ==
    /\ call.op = "write"
    /\ pixel_config.data_type = "RGBW"
    /\ id = MkID("Config")
    /\ nsent > Len(wire)
    /\ Len(wire) = 2
    /\ wire[2][3] = 30
    /\ wire[2][4] = 250

\* the datagram with arrival number n has been taken from the socket
Handled(n) == \A k \in 1..Len(socket) : socket[k].n # n

\* the packet decoded from arrival n is in a queue of its source address
Enqueued(n) ==
    /\ Len(arrivals) >= n
    /\ \E g \in 1..Len(channels[ip(arrivals[n].from)]) :
          LET ch == channels[ip(arrivals[n].from)][g]
          IN  \E k \in 1..Len(ch.serials) :
                 /\ ch.serials[k] = n
                 /\ ch.queue[k] = from_bytes(arrivals[n].bytes).packet

\* the Receiver of the channel registered for the source address of arrival n
\* has been dropped
ReceiverGone(n) ==
    /\ Len(arrivals) >= n
    /\ ip(arrivals[n].from) \in DOMAIN connections
    /\ ~channels[ip(arrivals[n].from)][connections[ip(arrivals[n].from)]].open

\* C25: each datagram that arrives from an address registered through
\* connect - the first and every later one - is decoded with from_bytes and
\* eventually enqueued on the queue of that address (as long as its Receiver
\* lives), and every queue holds its packets in arrival order.
C25_DispatcherFeeds ==
    /\ [](\A a \in Addrs : \A g \in 1..Len(channels[a]) :
             \A k \in 1..Len(channels[a][g].serials) :
                k > 1 => channels[a][g].serials[k - 1] < channels[a][g].serials[k])
    /\ \A n \in 1..MaxArrive :
          (Len(arrivals) >= n /\ arrivals[n].reg)
             ~> (Enqueued(n) \/ ReceiverGone(n))

\* arrival n came from an address that was never registered
Unknown(n) == Len(arrivals) >= n /\ channels[ip(arrivals[n].from)] = << >>

\* C26: a datagram from an address with no registered connection is dropped
\* (no queue receives a packet for it) and the dispatcher keeps running: a
\* datagram that arrives afterwards from a registered address is still
\* delivered to the queue of that address.
C26_UnknownSenderNotFatal ==
    /\ [](\A n \in 1..Len(arrivals) :
             (Unknown(n) /\ Handled(n)) =>
                /\ \A a \in Addrs : \A g \in 1..Len(channels[a]) :
                      \A k \in 1..Len(channels[a][g].serials) :
                         channels[a][g].serials[k] # n
                /\ dispatcher = "recv")
    /\ \A n \in 1..MaxArrive : \A m \in 1..MaxArrive :
          (n < m /\ Len(arrivals) >= m /\ Unknown(n) /\ Handled(n)
                 /\ arrivals[m].reg)
             ~> (Enqueued(m) \/ ReceiverGone(m))

\* C27: every datagram emitted by write, write_offset or write_message is
\* the 10-byte header followed by the bytes of its chunk and nothing else:
\* its length field (bytes 8..9, big-endian) is the number of payload bytes
\* of that same datagram, a payload has at most 1440 bytes, and the payloads
\* in order are a contiguous run of the data of the call up to its end (all
\* of it for write and write_message), so no byte an earlier, longer
\* fragment left in the send buffer is transmitted.
C27_DatagramExact ==
    call.op \in {"write", "write_offset", "write_message"} =>
       LET all == Concat(Payloads_of(wire))
           L == Len(call.data)
       IN  /\ \A i \in 1..Len(wire) :
                 /\ Len(wire[i]) >= 10
                 /\ LengthOf(wire[i]) = Len(wire[i]) - 10
                 /\ Len(wire[i]) - 10 <= MAX_DATA_LENGTH
           /\ Len(all) <= L
           /\ all = SubSeq(call.data, L - Len(all) + 1, L)
           /\ call.op # "write_offset" => Len(all) = L

\* a one-byte fragment went out as an 11-byte datagram right after a full
\* fragment, whose payload is still in the send buffer behind it
C27_Witness ==
    /\ call.op = "write"
    /\ Len(wire) = 2
    /\ Len(wire[1]) = 10 + MAX_DATA_LENGTH
    /\ Len(wire[2]) = 11
    /\ buffer[12] = wire[1][12]
    /\ buffer[12] # 0

\* bit k (0 the lowest) of byte b
Bit(b, k) == (b \div (2 ^ k)) % 2

\* C28: for every version v in 1..4 and every flag combination the encoded
\* PacketType has the five flags in bits 4..0 and the version in bits 7..6,
\* without overflow of the byte: it decodes back to the same flags and to
\* its own version, so PacketTypes that differ only in their version encode
\* to different bytes.
C28_VersionBits ==
    (Applied("PacketType::into") /\ codec.in.version \in 1..4) =>
        /\ codec.out \in 0..255
        /\ (Bit(codec.out, 4) = 1) = codec.in.timecode
        /\ (Bit(codec.out, 3) = 1) = codec.in.storage
        /\ (Bit(codec.out, 2) = 1) = codec.in.reply
        /\ (Bit(codec.out, 1) = 1) = codec.in.query
        /\ (Bit(codec.out, 0) = 1) = codec.in.push
        /\ Bit(codec.out, 5) = 0
        /\ codec.back.version = codec.in.version

C30_ControlByte ==
    /\ Applied("ID::into") =>
          /\ codec.in = MkID("Control") => codec.out = 246
          /\ codec.in = Custom(249) => codec.out = 249
          /\ codec.out = 246 => codec.in = MkID("Control")
    /\ Applied("ID::from") =>
          /\ codec.in = 246 => codec.out = MkID("Control")
          /\ codec.in # 246 => codec.out # MkID("Control")
          /\ codec.in = 249 => codec.out = Custom(249)

\* byte 249 has been decoded to Custom(249)
C30_Witness ==
    Applied("ID::from") /\ codec.in = 249 /\ codec.out = Custom(249)

BE32(b, lo) ==
    b[lo + 1] * 16777216 + b[lo + 2] * 65536 + b[lo + 3] * 256 + b[lo + 4]

\* C32: decoding an input of at least 14 bytes whose timecode bit is set
\* gives time_code = Some(big-endian u32 of bytes 10..13) and the payload
\* from byte 14 on; decoding an input whose timecode bit is clear gives
\* time_code = None and the payload from byte 10 on.  A header with the
\* timecode flag set is assembled by the connection as 14 header bytes with
\* the timecode big-endian in bytes 10..13, followed by the chunk.
C32_Timecode ==
    /\ Decoded =>
          LET b == codec.in
              p == codec.out.packet
          IN  IF (b[1] \div 16) % 2 = 1
              THEN /\ p.header.time_code = [some |-> TRUE, value |-> BE32(b, 10)]
                   /\ p.data = SubSeq(b, 15, Len(b))
              ELSE /\ p.header.time_code = TimeCodeNone
                   /\ p.data = SubSeq(b, 11, Len(b))
    /\ (Applied("Header") /\ codec.in.packet_type.timecode) =>
          /\ Len(codec.sent) = 14 + Len(Pixel1)
          /\ BE32(codec.sent, 10) = codec.in.time_code.value
          /\ SubSeq(codec.sent, 15, Len(codec.sent)) = Pixel1

\* a status reply with timecode 12345 has been decoded: the timecode is read
\* from bytes 10..13 and the JSON payload starts at byte 14
C32_Witness ==
    /\ Decoded
    /\ codec.in = PacketBytes(84, 251, Doc.status_push)
    /\ codec.out.packet.header.time_code = [some |-> TRUE, value |-> 12345]
    /\ codec.out.packet.data = Doc.status_push
    /\ codec.out.packet.parsed.some

\* C33: decoding reports the header fields as they are in the bytes and
\* does not compare them with the payload: the sequence number is byte 1
\* (0 and values above 15 included), the offset the big-endian u32 of bytes
\* 4..7, the length the big-endian u16 of bytes 8..9 even when it is not the
\* number of payload bytes present, and the payload is every byte after the
\* header whatever the length field says.
C33_FieldsVerbatim ==
    Decoded =>
        LET b == codec.in
            p == codec.out.packet
        IN  /\ p.header.sequence_number = b[2]
            /\ p.header.offset = BE32(b, 4)
            /\ p.header.length = b[9] * 256 + b[10]
            /\ p.data = InPayload(b)
            /\ Len(p.data) = Len(b) - InHeaderSize(b)

\* a packet with sequence number 255, offset 3999999 and length field 65535
\* over a 3-byte payload has been decoded
C33_Witness ==
    /\ Decoded
    /\ codec.out.packet.header.sequence_number = 255
    /\ codec.out.packet.header.offset = 3999999
    /\ codec.out.packet.header.length = 65535
    /\ codec.out.packet.data = Pixel1

\* C34: for every 10-byte input x, and every 14-byte input with the
\* timecode bit set, decode(encode(decode(x))) = decode(x); the re-encoded
\* bytes have the sequence, id, offset, length (and timecode) bytes of x, and
\* differ from x at most in bit 5 of byte 0 and in the pixel-config byte.
C34_NormaliseIdempotent ==
    Applied("Header::from") =>
        LET x == codec.in
            y == codec.bytes
        IN  /\ codec.back = codec.out
            /\ Len(y) = Len(x)
            /\ y[1] = x[1] - 32 * Bit(x[1], 5)
            /\ \A k \in 1..Len(x) : k \notin {1, 3} => y[k] = x[k]

\* the 14 bytes FF FF FF F9 .. with timecode have been decoded, encoded as
\* DF .. with another pixel-config byte, and decoded to the same Header
C34_Witness ==
    /\ Applied("Header::from")
    /\ Len(codec.in) = 14
    /\ codec.in[1] = 255 /\ codec.in[3] = 255 /\ codec.in[4] = 249
    /\ codec.bytes[1] = 223
    /\ codec.bytes[3] # 255
    /\ codec.back = codec.out
    /\ codec.out.id = Custom(249)

\* C35: the send buffer of 1500 bytes is never overrun: every datagram
\* assembled by write, write_offset or write_message has at most
\* 14 + 1440 = 1454 bytes, header and chunk together, whatever the length of
\* the payload, so only indices below 1500 are written and sent.
C35_BufferNotOverrun ==
    /\ Len(buffer) = 1500
    /\ \A i \in 1..Len(wire) :
          /\ Len(wire[i]) <= 1454
          /\ Len(wire[i]) <= Len(buffer)
          /\ wire[i] = SubSeq(buffer, 1, Len(wire[i]))
                \/ i < Len(wire)

\* a write of 2881 bytes has sent two datagrams of the largest size, 1450
\* bytes, and a third of 11 bytes from the same buffer
C35_Witness ==
    /\ call.op = "write"
    /\ Len(call.data) = 2881
    /\ Len(wire) = 3
    /\ Len(wire[1]) = 1450 /\ Len(wire[2]) = 1450 /\ Len(wire[3]) = 11

\* the first datagram a call handed to the transport, sent or refused
\* (<< >>: the call handed none)
FirstHanded(c, w) == IF w # << >> THEN w[1] ELSE c.failed

\* C36: a failed send does not advance the sequence counter.  After a call in
\* which a send failed the counter holds the number stamped into the refused
\* datagram, the chunks sent before it have each advanced the counter by one
\* step from the counter at the start of the call, and the next datagram
\* handed to the transport, by whichever later call, carries the number of
\* the refused datagram.
C36_FailedSendKeepsCounter ==
    [][ /\ call'.failed # << >> =>
              /\ ~call'.ret.ok
              /\ sequence_number' = SeqOf(call'.failed)
              /\ SeqOf(FirstHanded(call', wire')) = sequence_number
              /\ \A i \in 1..(Len(wire') - 1) :
                    Consecutive(SeqOf(wire'[i]), SeqOf(wire'[i + 1]))
              /\ Len(wire') > 0 =>
                    Consecutive(SeqOf(wire'[Len(wire')]), SeqOf(call'.failed))
        /\ (call.failed # << >> /\ FirstHanded(call', wire') # << >>) =>
              SeqOf(FirstHanded(call', wire')) = SeqOf(call.failed)
        /\ (call.op = "get_incoming" /\ FirstHanded(call', wire') # << >>) =>
              SeqOf(FirstHanded(call', wire')) = sequence_number
        /\ call'.op = "get_incoming" => sequence_number' = sequence_number
      ]_vars

\* the second chunk of a 2000-byte write was refused with number 4 after the
\* first was sent with number 3, and the counter holds 4
C36_Witness ==
    /\ call.op = "write" /\ Len(call.data) = 2000
    /\ ~call.ret.ok /\ call.failed # << >>
    /\ Len(wire) = 1 /\ SeqOf(wire[1]) = 3
    /\ SeqOf(call.failed) = 4 /\ sequence_number = 4

\* the thread takes a datagram from the socket in this step
Dispatching == dispatcher = "recv" /\ socket # << >> /\ socket' = Tail(socket)

\* the datagram the thread takes comes from a registered address whose
\* registered Receiver has been dropped
DroppedReceiver ==
    /\ ip(Head(socket).from) \in DOMAIN connections
    /\ ~channels[ip(Head(socket).from)][connections[ip(Head(socket).from)]].open

\* C37: when the dispatcher tries to enqueue a packet for a registered
\* address whose Receiver has been dropped, the dispatch step completes (it
\* does not wait forever for the map while it holds the entry it looked up),
\* afterwards the address is no longer registered, and the other registered
\* addresses are as before.
C37_DroppedReceiverRemoved ==
    [][ (Dispatching /\ DroppedReceiver) =>
           /\ dispatcher' # "blocked"
           /\ ip(Head(socket).from) \notin DOMAIN connections'
           /\ \A a \in DOMAIN connections \ {ip(Head(socket).from)} :
                 a \in DOMAIN connections' /\ connections'[a] = connections[a]
      ]_vars

\* C38: the registry holds at most one inbound queue per IP address and the
\* port is ignored: the keys of the map are IP addresses, each registered IP
\* maps to the channel of the most recent connect to it, a datagram from a
\* registered IP is let through and routed whatever its source port, and the
\* packet goes to the queue of the most recent connect (while its Receiver
\* lives); the queues of earlier connects to that IP get nothing more.
C38_OneQueuePerIP ==
    /\ [](/\ DOMAIN connections \subseteq Addrs
          /\ \A a \in Addrs :
                /\ a \in DOMAIN connections <=> channels[a] # << >>
                /\ a \in DOMAIN connections => connections[a] = Len(channels[a]))
    /\ [][ Dispatching =>
             LET d == Head(socket)
                 a == ip(d.from)
                 last == Len(channels[a])
             IN  /\ \A b \in Addrs : \A g \in 1..Len(channels[b]) :
                       (b # a \/ g < last) => channels'[b][g] = channels[b][g]
                 /\ (last > 0 /\ channels[a][last].open) =>
                       /\ recieve_filter(d, connections).ok
                       /\ channels'[a][last].serials =
                              Append(channels[a][last].serials, d.n)
                       /\ channels'[a][last].queue =
                              Append(channels[a][last].queue, from_bytes_of[d.bytes])
          ]_vars

\* 10.0.0.1 was connected twice and both Receivers live; the datagram that
\* came from port 5000 of that IP is in the queue of the second connect and
\* the queue of the first is empty
C38_Witness ==
    /\ Len(channels["10.0.0.1"]) = 2
    /\ channels["10.0.0.1"][1].open /\ channels["10.0.0.1"][2].open
    /\ connections["10.0.0.1"] = 2
    /\ Len(arrivals) >= 1 /\ arrivals[1].from = [ip |-> "10.0.0.1", port |-> 5000]
    /\ channels["10.0.0.1"][2].serials = << 1 >>
    /\ channels["10.0.0.1"][1].queue = << >>

\* C39: the two senders agree: from the same sequence counter, pixel_config
\* and id, Connection::write transmits for every payload the datagrams
\* DDPConnection::write transmits, byte for byte (the header with the length
\* of the chunk and the cumulative offset, and the payload).
C39_SendersAgree ==
    [][ call'.op = "Connection::write" =>
           LET r == slice_send(sequence_number, buffer,
                               write_header(pixel_config, id),
                               call'.data, Len(wire') + 1)
           IN  /\ wire' = r.out
               /\ call'.failed = r.failed
      ]_vars

====
